---- MODULE Spec2Model ----
(***************************************************************************)
(* A model of @rse/observable (src/src/observable.ts): observable proxies  *)
(* over records, arrays, sets and maps, the registry of their information  *)
(* contexts (observableMap), the observer handles and the propagation of   *)
(* observations along the parent chain.                                    *)
(*                                                                         *)
(* The JavaScript heap is a sequence of objects addressed by their index;  *)
(* a Proxy is an object of its own with a target.  Every API call and      *)
(* every intercepted operation is one action; the calls it makes           *)
(* (makeObservable, the traps it goes through, triggerObserver) are        *)
(* operators over a machine state that threads the heap, the registry, the *)
(* observations delivered so far and a pending exception.                  *)
(***************************************************************************)
EXTENDS Integers, Sequences, FiniteSets, TLC

VARIABLES
    heap,           \* the objects of the program: raw values and proxies
    observableMap,  \* const observableMap: proxy -> ObservableInfo
    handles,        \* the Observer handles observer() has returned
    events,         \* the observations the callbacks got during the last call
    lastOp,         \* the last call: what was called, how it ended
    wraps,          \* the number of observable() calls that made a proxy
    mutations       \* the number of intercepted operations so far

vars == <<heap, observableMap, handles, events, lastOp, wraps, mutations>>

(***************************************************************************)
(* Bounds of the model.                                                    *)
(***************************************************************************)
MaxWraps == 2
MaxMutations == 1
MaxObserverMutations == 2
MaxHandles == 2
MaxObservers == 3
MaxLen == 3
MaxStack == 6

(***************************************************************************)
(* JavaScript values.                                                      *)
(***************************************************************************)
Num(n) == [t |-> "num", v |-> n]
Ref(i) == [t |-> "ref", v |-> i]
Undefined == [t |-> "undef", v |-> 0]
Null == [t |-> "null", v |-> 0]
Hole == [t |-> "hole", v |-> 0]

\* as TypeofObject, with null not taken for an object
TypeofObjectNotNull(x) == x.t = "ref"

\* typeof x === "object": every heap object, and null
TypeofObject(x) == x.t \in {"ref", "null"}

\* a hole of a sparse array reads as undefined
ReadVal(x) == IF x.t = "hole" THEN Undefined ELSE x

(***************************************************************************)
(* Heap objects.  ents is the ordered content: the own properties of a     *)
(* plain object, the elements of an array (k unused), the members of a Set *)
(* (k unused), the entries of a Map.  A Proxy has a target and the strict  *)
(* flag its traps closed over.                                             *)
(***************************************************************************)
Ent(k, v) == [k |-> k, v |-> v]
Obj(kind, ents) == [kind |-> kind, ents |-> ents, target |-> 0, strict |-> FALSE]
ProxyObj(target, strict) == [kind |-> "Proxy", ents |-> <<>>, target |-> target, strict |-> strict]

\* the kind instanceof / getPrototypeOf see (a Proxy forwards to its target)
RECURSIVE KindOf(_, _)
KindOf(h, i) == IF h[i].kind = "Proxy" THEN KindOf(h, h[i].target) ELSE h[i].kind

\* the object the traps of a proxy operate on
TargetOf(h, i) == IF h[i].kind = "Proxy" THEN h[i].target ELSE i

KeyIndex(ents, k) ==
    IF \E i \in 1..Len(ents) : ents[i].k = k
    THEN CHOOSE i \in 1..Len(ents) : ents[i].k = k
    ELSE 0

MemberIndex(ents, v) ==
    IF \E i \in 1..Len(ents) : ents[i].v = v
    THEN CHOOSE i \in 1..Len(ents) : ents[i].v = v
    ELSE 0

RemoveAt(s, i) == SubSeq(s, 1, i - 1) \o SubSeq(s, i + 1, Len(s))

\* String(i) of an array index, and its inverse (-1: not an index)
IndexStr(i) == ToString(i)
IndexOf(p) ==
    IF \E i \in 0..(MaxLen + 1) : IndexStr(i) = p
    THEN CHOOSE i \in 0..(MaxLen + 1) : IndexStr(i) = p
    ELSE -1

Holes(n) == [i \in 1..n |-> Ent("", Hole)]

\* Reflect.get(target, p) on a plain object, an array or a typed array
ReflectGet(o, p) ==
    IF o.kind \in {"Array", "TypedArray"}
    THEN LET i == IndexOf(p)
         IN  IF i >= 0 /\ i < Len(o.ents) THEN ReadVal(o.ents[i + 1].v) ELSE Undefined
    ELSE LET i == KeyIndex(o.ents, p)
         IN  IF i > 0 THEN o.ents[i].v ELSE Undefined

\* the number a Uint8Array stores for the value v
ToUint8(v) == IF v.t = "num" THEN Num(v.v % 256) ELSE Num(0)

\* Reflect.set(target, p, v) on a plain object, an array or a typed array (which
\* stores the number of v at an index it has and ignores any other index)
ReflectSet(o, p, v) ==
    IF o.kind = "TypedArray"
    THEN LET i == IndexOf(p)
         IN  IF i >= 0 /\ i < Len(o.ents) THEN [o EXCEPT !.ents[i + 1] = Ent("", ToUint8(v))]
             ELSE o
    ELSE IF o.kind = "Array"
    THEN LET i == IndexOf(p)
         IN  IF i < 0 THEN o
             ELSE IF i < Len(o.ents) THEN [o EXCEPT !.ents[i + 1] = Ent("", v)]
             ELSE [o EXCEPT !.ents = @ \o Holes(i - Len(@)) \o <<Ent("", v)>>]
    ELSE LET i == KeyIndex(o.ents, p)
         IN  IF i > 0 THEN [o EXCEPT !.ents[i] = Ent(p, v)]
             ELSE [o EXCEPT !.ents = Append(@, Ent(p, v))]

\* Reflect.deleteProperty(target, p) on a plain object, an array or a typed array
\* (whose elements cannot be deleted), and what it returns
ReflectDeleteProperty(o, p) ==
    IF o.kind = "TypedArray" THEN o
    ELSE IF o.kind = "Array"
    THEN LET i == IndexOf(p)
         IN  IF i >= 0 /\ i < Len(o.ents) THEN [o EXCEPT !.ents[i + 1] = Ent("", Hole)] ELSE o
    ELSE LET i == KeyIndex(o.ents, p)
         IN  IF i > 0 THEN [o EXCEPT !.ents = RemoveAt(@, i)] ELSE o

ReflectDeleteResult(o, p) ==
    IF o.kind = "TypedArray" /\ IndexOf(p) >= 0 /\ IndexOf(p) < Len(o.ents) THEN Num(0)
    ELSE Num(1)

(***************************************************************************)
(* The observer callbacks of the model: each records the observation it is *)
(* called with.  cb1 and cb2 do nothing else;                              *)
(*   cbSet   is (ev) => { if (ev.valueNew !== 9) ev.target.d = 9 }         *)
(*   cbThrow is (ev) => { throw new Error("callback failed") }             *)
(***************************************************************************)
Callbacks == {"cb1", "cb2"}

CallbackNames == Callbacks \cup {"cbSet", "cbThrow"}

(***************************************************************************)
(* The machine state an API call runs on.  err is the pending exception    *)
(* ("none": no exception), ret the value of the last call, chains counts   *)
(* the triggerObserver calls made from a trap or a method wrapper, chain   *)
(* is the number of the one that is running, depth the number of           *)
(* makeObservable calls on the stack (the stack has room for MaxStack).    *)
(***************************************************************************)
Machine(h, om) ==
    [heap |-> h, observableMap |-> om, events |-> <<>>, err |-> "none",
     ret |-> Undefined, chain |-> 0, chains |-> 0, depth |-> 0]

Throw(st, msg) == [st EXCEPT !.err = msg]
Return(st, v) == [st EXCEPT !.ret = v]

\* type ObservableInfo: paused is the Map callback -> boolean ("unset": no entry)
ObservableInfo(rawObj, name, parent) ==
    [raw |-> rawObj, name |-> name, parent |-> parent, callbacks |-> <<>>,
     paused |-> [c \in CallbackNames |-> "unset"]]

\* info.paused.get(callback), as a condition
PausedGet(info, c) == info.paused[c] = "true"

(***************************************************************************)
(* triggerObserver: the callbacks of the target that are not paused, one    *)
(* after the other in the order of the Set, each run to its end (a         *)
(* callback that throws ends the loop and the call), then the parent with  *)
(* the name prefixed.  Each observation keeps, beside what the callback is *)
(* given, the call that started the propagation (chain, origin, token),    *)
(* its level above the origin and the heap at the moment of the call.      *)
(***************************************************************************)
Observation(st, c, type, target, path, valueNew, valueOld, origin, token, level) ==
    [callback |-> c, type |-> type, target |-> target, path |-> path,
     valueNew |-> valueNew, valueOld |-> valueOld,
     chain |-> st.chain, origin |-> origin, token |-> token, level |-> level,
     heapAt |-> st.heap]

\* as ActiveCallbacks, without the test of info.paused
AllCallbacks(info) == info.callbacks

ActiveCallbacks(info) == SelectSeq(info.callbacks, LAMBDA c : ~PausedGet(info, c))

\* as ParentPath, with the name after the path
ParentPathSuffix(info, path) == path \o "." \o info.name

\* as ParentPath, with the path handed up as it is
ParentPathUnprefixed(info, path) == path

ParentPath(info, path) == info.name \o "." \o path

\* callback({ type, target, path, valueNew, valueOld }): the observation as
\* the callback gets it
Deliver(st, ev) == [st EXCEPT !.events = Append(@, ev)]

\* The propagation of the assignment a callback makes (ev.target.d = 9): as
\* CallCallbacks, triggerLevel and triggerObserver below, one call deeper.
\* The observations of this propagation have 9 as valueNew, so cbSet assigns
\* nothing in it.
NestedCallbackBody(st, c) ==
    CASE c = "cbThrow" -> Throw(st, "Error: callback failed")
      [] OTHER -> st

RECURSIVE NestedCallCallbacks(_, _, _, _, _, _, _, _, _, _, _)
NestedCallCallbacks(st, act, i, type, target, path, valueNew, valueOld, origin, token, level) ==
    IF st.err # "none" \/ i > Len(act) THEN st
    ELSE NestedCallCallbacks(
             NestedCallbackBody(
                 Deliver(st, Observation(st, act[i], type, target, path, valueNew, valueOld,
                                         origin, token, level)),
                 act[i]),
             act, i + 1, type, target, path, valueNew, valueOld, origin, token, level)

RECURSIVE NestedTriggerLevel(_, _, _, _, _, _, _, _, _)

\* if (info.parent !== null) triggerObserver(type, info.parent, ...)
NestedTriggerParent(st, info, type, path, valueNew, valueOld, origin, token, level) ==
    IF st.err = "none" /\ info.parent # Null
    THEN NestedTriggerLevel(st, type, info.parent.v, ParentPath(info, path),
                            valueNew, valueOld, origin, token, level + 1)
    ELSE st

NestedTriggerLevel(st, type, target, path, valueNew, valueOld, origin, token, level) ==
    IF target \notin DOMAIN st.observableMap
    THEN Throw(st, "internal error: missing information context")
    ELSE NestedTriggerParent(
             NestedCallCallbacks(st, ActiveCallbacks(st.observableMap[target]), 1, type,
                                 target, path, valueNew, valueOld, origin, token, level),
             st.observableMap[target], type, path, valueNew, valueOld, origin, token, level)

\* the set trap of a plain object proxy for a value that is no object
\* (typeof valueNew !== "object": nothing is wrapped), called by a callback
SetTrapOfNumber(st, proxy, p, value) ==
    NestedTriggerLevel([st EXCEPT !.heap[st.heap[proxy].target] = ReflectSet(@, p, value),
                                  !.chains = @ + 1,
                                  !.chain = st.chains + 1],
                       "change", proxy, p, value,
                       ReflectGet(st.heap[st.heap[proxy].target], p), proxy, p, 0)

\* the callback has returned to the loop of the triggerObserver that called it
EndOfCallback(st, caller) == [st EXCEPT !.ret = caller.ret, !.chain = caller.chain]

\* the body of the callback c, called with the observation ev
CallbackBody(st, c, ev) ==
    CASE c = "cbThrow" -> Throw(st, "Error: callback failed")
      [] c = "cbSet" -> IF ev.valueNew # Num(9)
                        THEN EndOfCallback(SetTrapOfNumber(st, ev.target, "d", Num(9)), st)
                        ELSE st
      [] OTHER -> st

RECURSIVE CallCallbacks(_, _, _, _, _, _, _, _, _, _, _)

\* as CallCallbacks, with the callbacks of a level run only after each of them
\* has been given its observation
CallCallbacksDeferred(st, act, i, type, target, path, valueNew, valueOld, origin, token, level) ==
    IF st.err # "none" \/ i > Len(act) THEN st
    ELSE CallbackBody(
             CallCallbacks(
                 Deliver(st, Observation(st, act[i], type, target, path, valueNew, valueOld,
                                         origin, token, level)),
                 act, i + 1, type, target, path, valueNew, valueOld, origin, token, level),
             act[i],
             Observation(st, act[i], type, target, path, valueNew, valueOld,
                         origin, token, level))

\* for (const callback of info.callbacks.values()) ... callback({ ... }), from
\* the i-th of the callbacks that are not paused on
CallCallbacks(st, act, i, type, target, path, valueNew, valueOld, origin, token, level) ==
    IF st.err # "none" \/ i > Len(act) THEN st
    ELSE CallCallbacks(
             CallbackBody(
                 Deliver(st, Observation(st, act[i], type, target, path, valueNew, valueOld,
                                         origin, token, level)),
                 act[i],
                 Observation(st, act[i], type, target, path, valueNew, valueOld,
                             origin, token, level)),
             act, i + 1, type, target, path, valueNew, valueOld, origin, token, level)

RECURSIVE triggerLevel(_, _, _, _, _, _, _, _, _)

\* if (info.parent !== null) triggerObserver(type, info.parent, ...)
triggerParent(st, info, type, path, valueNew, valueOld, origin, token, level) ==
    IF st.err = "none" /\ info.parent # Null
    THEN triggerLevel(st, type, info.parent.v, ParentPath(info, path),
                      valueNew, valueOld, origin, token, level + 1)
    ELSE st

triggerLevel(st, type, target, path, valueNew, valueOld, origin, token, level) ==
    IF target \notin DOMAIN st.observableMap
    THEN Throw(st, "internal error: missing information context")
    ELSE triggerParent(
             CallCallbacks(st, ActiveCallbacks(st.observableMap[target]), 1, type, target,
                           path, valueNew, valueOld, origin, token, level),
             st.observableMap[target], type, path, valueNew, valueOld, origin, token, level)

triggerObserver(st, type, target, path, valueNew, valueOld) ==
    IF st.err # "none" THEN st
    ELSE triggerLevel([st EXCEPT !.chains = @ + 1, !.chain = st.chains + 1], type, target,
                      path, valueNew, valueOld, target, path, 0)

(***************************************************************************)
(* isObservable, and the "new Proxy" / addInfo pair of makeObservable.     *)
(***************************************************************************)
\* observableMap.has(x)
MapHas(st, x) == x.t = "ref" /\ x.v \in DOMAIN st.observableMap

NewProxyId(st) == Len(st.heap) + 1

\* as addInfo, with the proxy kept as raw
addInfoRawIsProxy(st, obj, name, parent, strict) ==
    LET p == NewProxyId(st)
    IN  [st EXCEPT !.heap = Append(@, ProxyObj(obj, strict)),
                   !.observableMap = (p :> ObservableInfo(p, name, parent)) @@ @,
                   !.ret = Ref(p)]

\* as addInfo, with the target of the parent proxy kept as parent
addInfoParentIsRaw(st, obj, name, parent, strict) ==
    LET p == NewProxyId(st)
    IN  [st EXCEPT !.heap = Append(@, ProxyObj(obj, strict)),
                   !.observableMap =
                       (p :> ObservableInfo(obj, name,
                                            IF parent = Null THEN Null
                                            ELSE Ref(TargetOf(st.heap, parent.v)))) @@ @,
                   !.ret = Ref(p)]

addInfo(st, obj, name, parent, strict) ==
    LET p == NewProxyId(st)
    IN  [st EXCEPT !.heap = Append(@, ProxyObj(obj, strict)),
                   !.observableMap = (p :> ObservableInfo(obj, name, parent)) @@ @,
                   !.ret = Ref(p)]

(***************************************************************************)
(* The method wrappers of a Set proxy (add, delete, clear) and of a Map    *)
(* proxy (set, delete, clear): the original method on the target, then     *)
(* triggerObserver.                                                        *)
(***************************************************************************)
SetAddOrig(o, v) ==
    IF MemberIndex(o.ents, v) > 0 THEN o ELSE [o EXCEPT !.ents = Append(@, Ent("", v))]

SetDeleteOrig(o, v) ==
    LET i == MemberIndex(o.ents, v)
    IN  IF i > 0 THEN [o EXCEPT !.ents = RemoveAt(@, i)] ELSE o

MapGetOrig(o, k) ==
    LET i == KeyIndex(o.ents, k) IN IF i > 0 THEN o.ents[i].v ELSE Undefined

MapSetOrig(o, k, v) ==
    LET i == KeyIndex(o.ents, k)
    IN  IF i > 0 THEN [o EXCEPT !.ents[i] = Ent(k, v)]
        ELSE [o EXCEPT !.ents = Append(@, Ent(k, v))]

MapDeleteOrig(o, k) ==
    LET i == KeyIndex(o.ents, k)
    IN  IF i > 0 THEN [o EXCEPT !.ents = RemoveAt(@, i)] ELSE o

\* args[i], undefined beyond the arguments given
Arg(args, i) == IF i <= Len(args) THEN args[i] ELSE Undefined

\* as SetMethod, with no observation for an add of a value that is a member
SetMethodSilentOnMember(st, proxy, p, args) ==
    IF st.err # "none" THEN st
    ELSE LET t == st.heap[proxy].target
             o == st.heap[t]
         IN  CASE p = "add" ->
                    IF MemberIndex(o.ents, Arg(args, 1)) > 0
                    THEN [st EXCEPT !.ret = Ref(t)]
                    ELSE triggerObserver([st EXCEPT !.heap[t] = SetAddOrig(o, Arg(args, 1)),
                                                    !.ret = Ref(t)],
                                         "change", proxy, "*", Arg(args, 1), Undefined)
               [] p = "delete" ->
                    triggerObserver([st EXCEPT !.heap[t] = SetDeleteOrig(o, Arg(args, 1)),
                                               !.ret = Undefined],
                                    "change", proxy, "*", Undefined, Arg(args, 1))
               [] OTHER ->
                    triggerObserver([st EXCEPT !.heap[t].ents = <<>>, !.ret = Undefined],
                                    "change", proxy, "*", Undefined, Undefined)

SetMethod(st, proxy, p, args) ==
    IF st.err # "none" THEN st
    ELSE LET t == st.heap[proxy].target
             o == st.heap[t]
         IN  CASE p = "add" ->
                    triggerObserver([st EXCEPT !.heap[t] = SetAddOrig(o, Arg(args, 1)),
                                               !.ret = Ref(t)],
                                    "change", proxy, "*", Arg(args, 1), Undefined)
               [] p = "delete" ->
                    triggerObserver([st EXCEPT !.heap[t] = SetDeleteOrig(o, Arg(args, 1)),
                                               !.ret = Undefined],
                                    "change", proxy, "*", Undefined, Arg(args, 1))
               [] OTHER ->
                    triggerObserver([st EXCEPT !.heap[t].ents = <<>>, !.ret = Undefined],
                                    "change", proxy, "*", Undefined, Undefined)

\* a Map method: k is args[0] (the key), args the arguments after it
MapMethod(st, proxy, p, k, args) ==
    IF st.err # "none" THEN st
    ELSE LET t == st.heap[proxy].target
             o == st.heap[t]
         IN  CASE p = "set" ->
                    LET valueOld == MapGetOrig(o, k)
                    IN  triggerObserver(
                            [st EXCEPT !.heap[t] = MapSetOrig(o, k, Arg(args, 1)),
                                       !.ret = Ref(t)],
                            "change", proxy, k, Arg(args, 1), valueOld)
               [] p = "delete" ->
                    triggerObserver(
                        [st EXCEPT !.heap[t] = MapDeleteOrig(o, k), !.ret = Undefined],
                        "change", proxy, k, Undefined, Arg(args, 1))
               [] OTHER ->
                    triggerObserver([st EXCEPT !.heap[t].ents = <<>>, !.ret = Undefined],
                                    "change", proxy, "*", Undefined, Undefined)

(***************************************************************************)
(* The method wrapper of an Array proxy: push, pop, unshift, shift,        *)
(* splice, sort, reverse.  The original method runs on the target with the *)
(* arguments as given, then triggerObserver.                               *)
(***************************************************************************)
Vals(args) == [i \in 1..Len(args) |-> Ent("", args[i])]

Reverse(s) == [i \in 1..Len(s) |-> s[Len(s) + 1 - i]]

\* the relative start of splice, clamped as Array.prototype.splice does
SpliceStart(len, start) ==
    IF start < 0 THEN (IF len + start < 0 THEN 0 ELSE len + start)
    ELSE IF start > len THEN len ELSE start

SpliceCount(len, start, args) ==
    IF Len(args) = 0 THEN 0
    ELSE IF Len(args) = 1 THEN len - start
    ELSE LET dc == args[2].v
         IN  IF dc < 0 THEN 0 ELSE IF dc > len - start THEN len - start ELSE dc

SpliceOrig(ents, args) ==
    LET len == Len(ents)
        start == IF Len(args) = 0 THEN 0 ELSE SpliceStart(len, args[1].v)
        dc == SpliceCount(len, start, args)
        items == IF Len(args) > 2 THEN SubSeq(args, 3, Len(args)) ELSE <<>>
    IN  SubSeq(ents, 1, start) \o Vals(items) \o SubSeq(ents, start + dc + 1, len)

\* the default sort order of numbers below 10 (as strings), undefined and holes last
SortRank(x) == IF x.t = "num" THEN x.v ELSE IF x.t = "undef" THEN 10 ELSE 11

RECURSIVE SortOrig(_)
SortOrig(ents) ==
    IF Len(ents) = 0 THEN <<>>
    ELSE LET m == CHOOSE i \in 1..Len(ents) :
                    \A j \in 1..Len(ents) :
                        \/ SortRank(ents[i].v) < SortRank(ents[j].v)
                        \/ SortRank(ents[i].v) = SortRank(ents[j].v) /\ i <= j
         IN  <<ents[m]>> \o SortOrig(RemoveAt(ents, m))

Sortable(ents) == \A i \in 1..Len(ents) : ents[i].v.t \in {"num", "undef", "hole"}

ArrayOrig(ents, p, args) ==
    CASE p = "push" -> ents \o Vals(args)
      [] p = "pop" -> IF Len(ents) = 0 THEN ents ELSE SubSeq(ents, 1, Len(ents) - 1)
      [] p = "unshift" -> Vals(args) \o ents
      [] p = "shift" -> IF Len(ents) = 0 THEN ents ELSE Tail(ents)
      [] p = "splice" -> SpliceOrig(ents, args)
      [] p = "sort" -> SortOrig(ents)
      [] OTHER -> Reverse(ents)

\* the value the original method returns (for splice, the removed elements are a
\* new array the model does not keep: undefined stands for it)
ArrayResult(ents, p, args) ==
    CASE p = "push" -> Num(Len(ents) + Len(args))
      [] p = "pop" -> IF Len(ents) = 0 THEN Undefined ELSE ReadVal(ents[Len(ents)].v)
      [] p = "unshift" -> Num(Len(ents) + Len(args))
      [] p = "shift" -> IF Len(ents) = 0 THEN Undefined ELSE ReadVal(ents[1].v)
      [] OTHER -> Undefined

ArrayMethod(st, proxy, p, args) ==
    IF st.err # "none" THEN st
    ELSE LET t == st.heap[proxy].target
             o == st.heap[t]
             valueOld == IF p = "splice" /\ Len(args) > 0
                         THEN ReflectGet(o, IndexStr(args[1].v)) ELSE Undefined
             result == ArrayResult(o.ents, p, args)
             st1 == [st EXCEPT !.heap[t].ents = ArrayOrig(o.ents, p, args), !.ret = result]
             length == Len(st1.heap[t].ents)
         IN  CASE p = "push" ->
                    triggerObserver(st1, "change", proxy, IndexStr(length), Arg(args, 1), Undefined)
               [] p = "pop" ->
                    triggerObserver(st1, "change", proxy, IndexStr(length + 1), Undefined, result)
               [] p = "unshift" ->
                    triggerObserver(st1, "change", proxy, IndexStr(0), Arg(args, 1), Undefined)
               [] p = "shift" ->
                    triggerObserver(st1, "change", proxy, IndexStr(0), Undefined, result)
               [] p = "splice" ->
                    triggerObserver(st1, "change", proxy,
                                    IF Len(args) > 0 THEN IndexStr(args[1].v) ELSE "undefined",
                                    Arg(args, 3), valueOld)
               [] OTHER ->
                    triggerObserver(st1, "change", proxy, "*", Undefined, Undefined)

(***************************************************************************)
(* The method wrapper of a typed array proxy: set, fill, copyWithin, sort, *)
(* reverse.  this is the target; this.slice() makes a new typed array, an  *)
(* object of its own on the heap.  The path of set, fill and copyWithin is *)
(* the argument as it was given (a number, or undefined if it was left     *)
(* out), written here as the string the parent level makes of it.          *)
(***************************************************************************)
\* a relative index of slice, fill and copyWithin, within 0..len (dflt if not given)
RelIndex(len, x, dflt) ==
    IF x.t # "num" THEN dflt
    ELSE IF x.v < 0 THEN (IF len + x.v < 0 THEN 0 ELSE len + x.v)
    ELSE IF x.v > len THEN len ELSE x.v

\* the elements of this.slice(start, end)
SliceOrig(ents, start, end) ==
    LET from == RelIndex(Len(ents), start, 0)
        to == RelIndex(Len(ents), end, Len(ents))
    IN  IF to > from THEN SubSeq(ents, from + 1, to) ELSE <<>>

\* this.slice(start, end): the new typed array is the value returned
Slice(st, t, start, end) ==
    [st EXCEPT !.heap = Append(@, Obj("TypedArray", SliceOrig(st.heap[t].ents, start, end))),
               !.ret = Ref(Len(st.heap) + 1)]

\* the elements after TypedArray.prototype.set(source, offset), offset in range
TypedSetOrig(ents, src, offset) ==
    [i \in 1..Len(ents) |->
        IF i > offset /\ i <= offset + Len(src)
        THEN Ent("", ToUint8(ReadVal(src[i - offset].v))) ELSE ents[i]]

\* as FillOrig, with the range not looked at
FillIgnoresRange(ents, value, start, end) ==
    [i \in 1..Len(ents) |-> Ent("", ToUint8(value))]

\* the elements after fill(value, start, end)
FillOrig(ents, value, start, end) ==
    LET from == RelIndex(Len(ents), start, 0)
        to == RelIndex(Len(ents), end, Len(ents))
    IN  [i \in 1..Len(ents) |-> IF i > from /\ i <= to THEN Ent("", ToUint8(value)) ELSE ents[i]]

\* the elements after copyWithin(target, start, end)
CopyWithinOrig(ents, target, start, end) ==
    LET len == Len(ents)
        to == RelIndex(len, target, 0)
        from == RelIndex(len, start, 0)
        final == RelIndex(len, end, len)
        count == IF final - from < len - to THEN final - from ELSE len - to
    IN  [i \in 1..len |-> IF i > to /\ i <= to + count THEN ents[from + (i - to)] ELSE ents[i]]

\* the path argument as the template string of the parent level shows it
PathArg(x) == IF x.t = "num" THEN IndexStr(x.v) ELSE "undefined"

TypedArrayMethod(st, proxy, p, args) ==
    IF st.err # "none" THEN st
    ELSE LET t == st.heap[proxy].target
             len == Len(st.heap[t].ents)
         IN  CASE p = "set" ->
                    LET src == st.heap[TargetOf(st.heap, args[1].v)].ents
                        st1 == Slice(st, t, Arg(args, 2), Num(Len(src)))
                        valueOld == st1.ret
                        offset == IF Arg(args, 2).t = "num" THEN Arg(args, 2).v ELSE 0
                    IN  IF offset < 0 \/ Len(src) + offset > len
                        THEN Throw(st1, "RangeError: offset is out of bounds")
                        ELSE triggerObserver(
                                 [st1 EXCEPT !.heap[t].ents = TypedSetOrig(@, src, offset),
                                             !.ret = Undefined],
                                 "change", proxy, PathArg(Arg(args, 2)), args[1], valueOld)
               [] p = "fill" ->
                    LET st1 == Slice(st, t, Arg(args, 2), Arg(args, 3))
                        valueOld == st1.ret
                        st2 == [st1 EXCEPT !.heap[t].ents =
                                               FillOrig(@, Arg(args, 1), Arg(args, 2), Arg(args, 3))]
                        st3 == Slice(st2, t, Arg(args, 2), Arg(args, 3))
                    IN  Return(triggerObserver(st3, "change", proxy, PathArg(Arg(args, 2)),
                                               st3.ret, valueOld),
                               Ref(t))
               [] p = "copyWithin" ->
                    LET st1 == Slice(st, t, Arg(args, 2), Arg(args, 3))
                        valueOld == st1.ret
                        st2 == [st1 EXCEPT !.heap[t].ents =
                                               CopyWithinOrig(@, Arg(args, 1), Arg(args, 2), Arg(args, 3))]
                        st3 == Slice(st2, t, Arg(args, 1),
                                     Num(args[1].v + (args[3].v - args[2].v)))
                    IN  Return(triggerObserver(st3, "change", proxy, PathArg(Arg(args, 1)),
                                               st3.ret, valueOld),
                               Ref(t))
               [] OTHER ->
                    LET st1 == Slice(st, t, Num(0), Undefined)
                        valueOld == st1.ret
                        st2 == [st1 EXCEPT !.heap[t].ents =
                                               IF p = "sort" THEN SortOrig(@) ELSE Reverse(@)]
                    IN  Return(triggerObserver(st2, "change", proxy, IndexStr(0), Ref(t), valueOld),
                               Ref(t))

(***************************************************************************)
(* makeObservable, with the set trap it assigns the wrapped children       *)
(* through and the passes over the content of a plain object, an Array, a  *)
(* Set and a Map.  The recursion of the source is the recursion here.      *)
(***************************************************************************)
SupportedKinds == {"Record", "Array", "Set", "Map", "WeakSet", "WeakMap", "TypedArray"}
OpaqueKinds == {"Date", "RegExp", "Error"}

RECURSIVE makeObservable(_, _, _, _, _)
RECURSIVE SetTrap(_, _, _, _)
RECURSIVE ObjectPass(_, _, _, _)
RECURSIVE ArrayPass(_, _, _)
RECURSIVE SetPass(_, _, _, _)
RECURSIVE MapPass(_, _, _, _)

\* the set trap of a plain object, Array or typed array proxy (receiver = the
\* proxy itself)
\* as SetTrap, with an assigned proxy given the key of the assigned slot as name
SetTrapRenames(st, proxy, p, value) ==
    IF st.err # "none" THEN st
    ELSE LET t == st.heap[proxy].target
             strict == st.heap[proxy].strict
             valueOld == ReflectGet(st.heap[t], p)
             st1 == IF TypeofObject(value) /\ ~MapHas(st, value)
                    THEN makeObservable(st, value, p, Ref(proxy), strict)
                    ELSE Return([st EXCEPT !.observableMap =
                                     IF MapHas(st, value) /\ value.v # proxy
                                     THEN [@ EXCEPT ![value.v].name = p]
                                     ELSE @],
                                value)
         IN  IF st1.err # "none" THEN st1
             ELSE LET valueNew == st1.ret
                      st2 == [st1 EXCEPT !.heap[t] = ReflectSet(@, p, valueNew)]
                  IN  Return(triggerObserver(st2, "change", proxy, p, valueNew, valueOld),
                             valueNew)

SetTrap(st, proxy, p, value) ==
    IF st.err # "none" THEN st
    ELSE LET t == st.heap[proxy].target
             strict == st.heap[proxy].strict
             valueOld == ReflectGet(st.heap[t], p)
             st1 == IF TypeofObject(value) /\ ~MapHas(st, value)
                    THEN makeObservable(st, value, p, Ref(proxy), strict)
                    ELSE Return(st, value)
         IN  IF st1.err # "none" THEN st1
             ELSE LET valueNew == st1.ret
                      st2 == [st1 EXCEPT !.heap[t] = ReflectSet(@, p, valueNew)]
                  IN  Return(triggerObserver(st2, "change", proxy, p, valueNew, valueOld),
                             valueNew)

\* the deleteProperty trap of a plain object, Array or typed array proxy; it
\* returns what Reflect.deleteProperty returned
DeletePropertyTrap(st, proxy, p) ==
    IF st.err # "none" THEN st
    ELSE LET t == st.heap[proxy].target
             valueOld == ReflectGet(st.heap[t], p)
             result == ReflectDeleteResult(st.heap[t], p)
             st1 == [st EXCEPT !.heap[t] = ReflectDeleteProperty(@, p)]
         IN  Return(triggerObserver(st1, "delete", proxy, p, Undefined, valueOld), result)

\* for (const field of Object.keys(proxy)): keys is the snapshot, i the position in it
ObjectPass(st, proxy, keys, i) ==
    IF st.err # "none" \/ i > Len(keys) THEN st
    ELSE LET t == st.heap[proxy].target
             cur == ReflectGet(st.heap[t], keys[i])
         IN  IF TypeofObject(cur)
             THEN LET st1 == makeObservable(st, cur, keys[i], Ref(proxy), st.heap[proxy].strict)
                  IN  ObjectPass(SetTrap(st1, proxy, keys[i], st1.ret), proxy, keys, i + 1)
             ELSE ObjectPass(st, proxy, keys, i + 1)

\* as ArrayPass, leaving the elements as they are
ArrayPassSkipped(st, proxy, i) == st

\* for (let i = 0; i < proxy.length; i++)
ArrayPass(st, proxy, i) ==
    IF st.err # "none" \/ i >= Len(st.heap[st.heap[proxy].target].ents) THEN st
    ELSE LET t == st.heap[proxy].target
             cur == ReflectGet(st.heap[t], IndexStr(i))
         IN  IF TypeofObject(cur)
             THEN LET st1 == makeObservable(st, cur, IndexStr(i), Ref(proxy), st.heap[proxy].strict)
                  IN  ArrayPass(SetTrap(st1, proxy, IndexStr(i), st1.ret), proxy, i + 1)
             ELSE ArrayPass(st, proxy, i + 1)

\* for (const item of Array.from(proxy.values())): items is the snapshot
SetPass(st, proxy, items, i) ==
    IF st.err # "none" \/ i > Len(items) THEN st
    ELSE LET item == items[i].v
         IN  IF TypeofObject(item)
             THEN LET st1 == SetMethod(st, proxy, "delete", <<item>>)
                      st2 == IF st1.err # "none" THEN st1
                             ELSE makeObservable(st1, item, "", Ref(proxy), st.heap[proxy].strict)
                  IN  SetPass(SetMethod(st2, proxy, "add", <<st2.ret>>), proxy, items, i + 1)
             ELSE SetPass(st, proxy, items, i + 1)

\* for (const [ key, item ] of Array.from(proxy.entries())): items is the snapshot
MapPass(st, proxy, items, i) ==
    IF st.err # "none" \/ i > Len(items) THEN st
    ELSE LET key == items[i].k
             item == items[i].v
         IN  IF TypeofObject(item)
             THEN LET st1 == MapMethod(st, proxy, "delete", key, <<>>)
                      st2 == IF st1.err # "none" THEN st1
                             ELSE makeObservable(st1, item, key, Ref(proxy), st.heap[proxy].strict)
                  IN  MapPass(MapMethod(st2, proxy, "set", key, <<st2.ret>>), proxy, items, i + 1)
             ELSE MapPass(st, proxy, items, i + 1)

\* the call has returned (or thrown): its frame is off the stack
Returned(st, depth) == [st EXCEPT !.depth = depth]

makeObservable(st, obj, name, parent, strict) ==
    IF st.err # "none" THEN st
    ELSE IF ~TypeofObject(obj) THEN Throw(st, "can convert objects to observables only")
    ELSE IF MapHas(st, obj) THEN Return(st, obj)
    ELSE IF obj = Null THEN Throw(st, "TypeError: Object.getPrototypeOf called on null")
    ELSE IF st.depth >= MaxStack
    THEN Throw(st, "RangeError: Maximum call stack size exceeded")
    ELSE LET kind == st.heap[obj.v].kind
             st1 == addInfo([st EXCEPT !.depth = @ + 1], obj.v, name, parent, strict)
             proxy == st1.ret.v
         IN  Returned(
             CASE kind = "Set" ->
                    Return(SetPass(st1, proxy, st.heap[obj.v].ents, 1), Ref(proxy))
               [] kind = "Map" ->
                    Return(MapPass(st1, proxy, st.heap[obj.v].ents, 1), Ref(proxy))
               [] kind \in {"WeakSet", "WeakMap", "TypedArray"} -> st1
               [] kind = "Array" -> Return(ArrayPass(st1, proxy, 0), Ref(proxy))
               [] kind = "Record" ->
                    Return(ObjectPass(st1, proxy,
                                      [i \in 1..Len(st.heap[obj.v].ents) |-> st.heap[obj.v].ents[i].k],
                                      1),
                           Ref(proxy))
               [] kind \in OpaqueKinds -> Return(st, obj)
               [] OTHER ->
                    IF strict THEN Throw(st, "unsupported object type detected")
                    ELSE Return(st, obj),
             st.depth)

(***************************************************************************)
(* The API functions.                                                      *)
(***************************************************************************)
\* as isObservable, true also for an object a registered proxy was made of
isObservableByRaw(st, object) ==
    IF st.err # "none" THEN st
    ELSE IF ~TypeofObject(object) THEN Throw(st, "argument has to be an object")
    ELSE Return(st, IF \/ MapHas(st, object)
                       \/ \E f \in DOMAIN st.observableMap :
                              object.t = "ref" /\ st.observableMap[f].raw = object.v
                    THEN Num(1) ELSE Num(0))

\* isObservable(object), as a call that may throw
isObservable(st, object) ==
    IF st.err # "none" THEN st
    ELSE IF ~TypeofObject(object) THEN Throw(st, "argument has to be an object")
    ELSE Return(st, IF MapHas(st, object) THEN Num(1) ELSE Num(0))

\* as observable, making a new proxy of the raw object of a proxy
observableRewraps(st, obj, strict) ==
    LET st1 == isObservable(st, obj)
    IN  IF st1.err # "none" THEN st1
        ELSE IF st1.ret = Num(1)
             THEN makeObservable(st1, Ref(st1.observableMap[obj.v].raw), "", Null, strict)
             ELSE makeObservable(st1, obj, "", Null, strict)

\* as observable, with strict not handed on to makeObservable
observableDropsStrict(st, obj, strict) ==
    LET st1 == isObservable(st, obj)
    IN  IF st1.err # "none" THEN st1
        ELSE IF st1.ret = Num(1) THEN Return(st1, obj)
        ELSE makeObservable(st1, obj, "", Null, FALSE)

observable(st, obj, strict) ==
    LET st1 == isObservable(st, obj)
    IN  IF st1.err # "none" THEN st1
        ELSE IF st1.ret = Num(1) THEN Return(st1, obj)
        ELSE makeObservable(st1, obj, "", Null, strict)

raw(st, obs) ==
    LET st1 == isObservable(st, obs)
    IN  IF st1.err # "none" THEN st1
        ELSE IF st1.ret = Num(0) THEN Throw(st1, "argument not an observable")
        ELSE Return(st1, Ref(st1.observableMap[obs.v].raw))

\* as observer, with the paused flag set before the test for a registered callback
observerResetsPaused(st, obs, callback) ==
    LET st1 == isObservable(st, obs)
    IN  IF st1.err # "none" THEN st1
        ELSE IF st1.ret = Num(0) THEN Throw(st1, "argument not an observable")
        ELSE LET st2 == [st1 EXCEPT !.observableMap[obs.v].paused[callback] = "false"]
                 info == st2.observableMap[obs.v]
             IN  IF \E i \in 1..Len(info.callbacks) : info.callbacks[i] = callback
                 THEN Throw(st2, "callback already registered for observation")
                 ELSE [st2 EXCEPT !.observableMap[obs.v].callbacks = Append(@, callback),
                                  !.ret = obs]

\* as observer, with the callback put before the registered ones
observerPrepends(st, obs, callback) ==
    LET st1 == isObservable(st, obs)
    IN  IF st1.err # "none" THEN st1
        ELSE IF st1.ret = Num(0) THEN Throw(st1, "argument not an observable")
        ELSE LET info == st1.observableMap[obs.v]
             IN  IF \E i \in 1..Len(info.callbacks) : info.callbacks[i] = callback
                 THEN Throw(st1, "callback already registered for observation")
                 ELSE [st1 EXCEPT !.observableMap[obs.v].callbacks = <<callback>> \o @,
                                  !.observableMap[obs.v].paused[callback] = "false",
                                  !.ret = obs]

\* observer(observable, callback): registers the callback; the handle closes over
\* the information context and the callback
observer(st, obs, callback) ==
    LET st1 == isObservable(st, obs)
    IN  IF st1.err # "none" THEN st1
        ELSE IF st1.ret = Num(0) THEN Throw(st1, "argument not an observable")
        ELSE LET info == st1.observableMap[obs.v]
             IN  IF \E i \in 1..Len(info.callbacks) : info.callbacks[i] = callback
                 THEN Throw(st1, "callback already registered for observation")
                 ELSE [st1 EXCEPT !.observableMap[obs.v].callbacks = Append(@, callback),
                                  !.observableMap[obs.v].paused[callback] = "false",
                                  !.ret = obs]

\* the handle's pause(), resume() and destroy(): f is the proxy of the handle's
\* information context, callback its callback
HandlePause(st, f, callback) == [st EXCEPT !.observableMap[f].paused[callback] = "true"]

HandleResume(st, f, callback) == [st EXCEPT !.observableMap[f].paused[callback] = "false"]

HandleDestroy(st, f, callback) ==
    LET info == st.observableMap[f]
    IN  IF ~\E i \in 1..Len(info.callbacks) : info.callbacks[i] = callback
        THEN Throw(st, "callback not or no longer registered for observation")
        ELSE [st EXCEPT !.observableMap[f].callbacks =
                            SelectSeq(@, LAMBDA c : c # callback)]

(***************************************************************************)
(* makeObservable recurses through the raw objects it reaches; a raw       *)
(* object that reaches itself makes it recurse until the stack overflows.  *)
(* WrapTerminates guards the calls of the specifications that start from   *)
(* structures without such an object.                                      *)
(***************************************************************************)
RawSucc(h, om, i) ==
    {h[i].ents[j].v.v : j \in {j \in 1..Len(h[i].ents) :
                                  /\ h[i].ents[j].v.t = "ref"
                                  /\ h[i].ents[j].v.v \notin DOMAIN om}}

RECURSIVE RawReach(_, _, _, _)
RawReach(h, om, frontier, seen) ==
    IF frontier \subseteq seen THEN seen
    ELSE RawReach(h, om, UNION {RawSucc(h, om, i) : i \in frontier}, seen \cup frontier)

WrapTerminates(h, om, v) ==
    v.t = "ref" /\ v.v \notin DOMAIN om
        => \A i \in RawReach(h, om, {v.v}, {}) :
               i \notin RawReach(h, om, RawSucc(h, om, i), {})

(***************************************************************************)
(* The calls of the program.  Each call runs on Machine(heap,              *)
(* observableMap) and is committed as a whole, with what it threw.         *)
(***************************************************************************)
Op(op, f, p, args, callback, handle, strict) ==
    [op |-> op, f |-> f, p |-> p, args |-> args, callback |-> callback,
     handle |-> handle, strict |-> strict, err |-> "none", ret |-> Undefined]

Commit(st, op) ==
    /\ \A i \in 1..Len(st.heap) : Len(st.heap[i].ents) <= MaxLen
    /\ heap' = st.heap
    /\ observableMap' = st.observableMap
    /\ events' = st.events
    /\ lastOp' = [op EXCEPT !.err = st.err, !.ret = st.ret]

Facades == DOMAIN observableMap
FacadesOf(kinds) == {f \in Facades : KindOf(heap, f) \in kinds}
AllRefs == {Ref(i) : i \in 1..Len(heap)}
RawRefs == {Ref(i) : i \in {i \in 1..Len(heap) : heap[i].kind # "Proxy"}}
\* the raw objects no proxy has been made of
Unwrapped == {r \in RawRefs : \A f \in Facades : observableMap[f].raw # r.v}

\* observable(obj, strict), also on a raw object that reaches itself
WrapAny(objs, stricts) ==
    \E obj \in objs, strict \in stricts :
        LET st == observable(Machine(heap, observableMap), obj, strict)
            made == IF Len(st.heap) > Len(heap) THEN 1 ELSE 0
        IN  /\ wraps + made <= MaxWraps
            /\ Commit(st, Op("observable", 0, "", <<obj>>, "", 0, strict))
            /\ wraps' = wraps + made
            /\ UNCHANGED <<handles, mutations>>

\* observable(obj, strict)
Wrap(objs, stricts) ==
    \E obj \in objs, strict \in stricts :
        LET st == observable(Machine(heap, observableMap), obj, strict)
            made == IF Len(st.heap) > Len(heap) THEN 1 ELSE 0
        IN  /\ WrapTerminates(heap, observableMap, obj)
            /\ wraps + made <= MaxWraps
            /\ Commit(st, Op("observable", 0, "", <<obj>>, "", 0, strict))
            /\ wraps' = wraps + made
            /\ UNCHANGED <<handles, mutations>>

\* the index properties of an Array proxy the model assigns and deletes
IndexProps(f) == {IndexStr(i) : i \in 0..Len(heap[TargetOf(heap, f)].ents)}

PropsOf(f, keys) == IF KindOf(heap, f) = "Array" THEN IndexProps(f) ELSE keys

\* proxy[p] = value, on the proxy of a plain object or an Array
SetProp(keys, values, max) ==
    \E f \in FacadesOf({"Record", "Array"}), value \in values :
        \E p \in PropsOf(f, keys) :
            /\ mutations < max
            /\ WrapTerminates(heap, observableMap, value)
            /\ Commit(SetTrap(Machine(heap, observableMap), f, p, value),
                      Op("set", f, p, <<value>>, "", 0, FALSE))
            /\ mutations' = mutations + 1
            /\ UNCHANGED <<handles, wraps>>

\* delete proxy[p], on the proxy of a plain object or an Array
DeleteProp(keys, max) ==
    \E f \in FacadesOf({"Record", "Array"}) :
        \E p \in PropsOf(f, keys) :
            /\ mutations < max
            /\ Commit(DeletePropertyTrap(Machine(heap, observableMap), f, p),
                      Op("delete", f, p, <<>>, "", 0, FALSE))
            /\ mutations' = mutations + 1
            /\ UNCHANGED <<handles, wraps>>

\* the arguments a modifying Array method is called with
ArrayArgs(p, values) ==
    CASE p \in {"push", "unshift"} ->
            {<<v>> : v \in values} \cup {<<v, Num(2)>> : v \in values}
      [] p = "splice" ->
            {<<Num(s), Num(d)>> : s \in 0..1, d \in 0..2}
                \cup {<<Num(s), Num(d), v>> : s \in 0..1, d \in 0..1, v \in values}
      [] OTHER -> {<<>>}

\* proxy.push(...), pop(), unshift(...), shift(), splice(...), sort(), reverse()
ArrayCall(values, max) ==
    \E f \in FacadesOf({"Array"}),
       p \in {"push", "pop", "unshift", "shift", "splice", "sort", "reverse"} :
        \E args \in ArrayArgs(p, values) :
            /\ mutations < max
            /\ p = "sort" => Sortable(heap[TargetOf(heap, f)].ents)
            /\ Commit(ArrayMethod(Machine(heap, observableMap), f, p, args),
                      Op(p, f, "", args, "", 0, FALSE))
            /\ mutations' = mutations + 1
            /\ UNCHANGED <<handles, wraps>>

\* proxy.add(value), proxy.delete(value), proxy.clear() on the proxy of a Set
SetCall(values, max) ==
    \E f \in FacadesOf({"Set"}), p \in {"add", "delete", "clear"} :
        \E args \in IF p = "clear" THEN {<<>>} ELSE {<<v>> : v \in values} :
            /\ mutations < max
            /\ Commit(SetMethod(Machine(heap, observableMap), f, p, args),
                      Op(p, f, "", args, "", 0, FALSE))
            /\ mutations' = mutations + 1
            /\ UNCHANGED <<handles, wraps>>

\* proxy.set(key, value), proxy.delete(key), proxy.clear() on the proxy of a Map
MapCall(keys, values, max) ==
    \E f \in FacadesOf({"Map"}), p \in {"set", "delete", "clear"} :
        \E k \in IF p = "clear" THEN {""} ELSE keys :
            \E args \in IF p = "set" THEN {<<v>> : v \in values} ELSE {<<>>} :
                /\ mutations < max
                /\ Commit(MapMethod(Machine(heap, observableMap), f, p, k, args),
                          Op(p, f, k, args, "", 0, FALSE))
                /\ mutations' = mutations + 1
                /\ UNCHANGED <<handles, wraps>>

\* proxy[p] = value on the proxy of a typed array
BufferAssign(values, max) ==
    \E f \in FacadesOf({"TypedArray"}), value \in values :
        \E p \in IndexProps(f) :
            /\ mutations < max
            /\ Commit(SetTrap(Machine(heap, observableMap), f, p, value),
                      Op("set", f, p, <<value>>, "", 0, FALSE))
            /\ mutations' = mutations + 1
            /\ UNCHANGED <<handles, wraps>>

\* delete proxy[p] on the proxy of a typed array; when the trap returns false
\* the delete expression throws in strict code (strict) and is false in
\* sloppy code
BufferDelete(max) ==
    \E f \in FacadesOf({"TypedArray"}), strict \in BOOLEAN :
        \E p \in IndexProps(f) :
            LET st == DeletePropertyTrap(Machine(heap, observableMap), f, p)
            IN  /\ mutations < max
                /\ Commit(IF st.err = "none" /\ st.ret = Num(0) /\ strict
                          THEN Throw(st, "TypeError: 'deleteProperty' on proxy: trap returned falsish")
                          ELSE st,
                          Op("delete", f, p, <<>>, "", 0, strict))
                /\ mutations' = mutations + 1
                /\ UNCHANGED <<handles, wraps>>

\* the arguments a modifying typed array method is called with
BufferArgs(p, sources) ==
    CASE p = "set" -> {<<s>> : s \in sources} \cup {<<s, Num(o)>> : s \in sources, o \in 0..2}
      [] p = "fill" -> {<<Num(7)>>} \cup {<<Num(7), Num(s), Num(e)>> : s \in 0..1, e \in 2..3}
      [] p = "copyWithin" -> {<<Num(0), Num(1), Num(3)>>, <<Num(1), Num(0), Num(2)>>}
      [] OTHER -> {<<>>}

\* proxy.set(...), fill(...), copyWithin(...), sort(), reverse() on the proxy of
\* a typed array
BufferCall(sources, max) ==
    \E f \in FacadesOf({"TypedArray"}), p \in {"set", "fill", "copyWithin", "sort", "reverse"} :
        \E args \in BufferArgs(p, sources) :
            /\ mutations < max
            /\ Commit(TypedArrayMethod(Machine(heap, observableMap), f, p, args),
                      Op(p, f, "", args, "", 0, FALSE))
            /\ mutations' = mutations + 1
            /\ UNCHANGED <<handles, wraps>>

\* observer(observable, callback); the handle is kept when the call returns
Handle(f, callback) == [f |-> f, callback |-> callback, destroyed |-> 0]

Observe(objs, max) ==
    \E obj \in objs, callback \in Callbacks :
        LET st == observer(Machine(heap, observableMap), obj, callback)
        IN  /\ Len(handles) < max
            /\ Commit(st, Op("observer", 0, "", <<obj>>, callback, 0, FALSE))
            /\ handles' = IF st.err = "none" THEN Append(handles, Handle(obj.v, callback))
                          ELSE handles
            /\ UNCHANGED <<wraps, mutations>>

\* observer(observable, callback) with one of the given callbacks
ObserveWith(objs, callbacks, max) ==
    \E obj \in objs, callback \in callbacks :
        LET st == observer(Machine(heap, observableMap), obj, callback)
        IN  /\ Len(handles) < max
            /\ Commit(st, Op("observer", 0, "", <<obj>>, callback, 0, FALSE))
            /\ handles' = IF st.err = "none" THEN Append(handles, Handle(obj.v, callback))
                          ELSE handles
            /\ UNCHANGED <<wraps, mutations>>

\* handle.pause()
Pause ==
    \E h \in 1..Len(handles) :
        /\ Commit(HandlePause(Machine(heap, observableMap), handles[h].f, handles[h].callback),
                  Op("pause", handles[h].f, "", <<>>, handles[h].callback, h, FALSE))
        /\ UNCHANGED <<handles, wraps, mutations>>

\* handle.resume()
Resume ==
    \E h \in 1..Len(handles) :
        /\ Commit(HandleResume(Machine(heap, observableMap), handles[h].f, handles[h].callback),
                  Op("resume", handles[h].f, "", <<>>, handles[h].callback, h, FALSE))
        /\ UNCHANGED <<handles, wraps, mutations>>

\* handle.destroy(); destroyed counts the destroy() calls of this handle that returned
Destroy ==
    \E h \in 1..Len(handles) :
        LET st == HandleDestroy(Machine(heap, observableMap), handles[h].f, handles[h].callback)
        IN  /\ Commit(st, Op("destroy", handles[h].f, "", <<>>, handles[h].callback, h, FALSE))
            /\ handles' = IF st.err = "none" THEN [handles EXCEPT ![h].destroyed = @ + 1]
                          ELSE handles
            /\ UNCHANGED <<wraps, mutations>>

(***************************************************************************)
(* The raw structures the program starts from.                             *)
(***************************************************************************)
Rec(ents) == Obj("Record", ents)

\* { a: { b: { c: 1 } } }
NestedRecord ==
    << Rec(<<Ent("a", Ref(2))>>), Rec(<<Ent("b", Ref(3))>>), Rec(<<Ent("c", Num(1))>>) >>

\* { a: { c: 1 } }
TwoLevelRecord ==
    << Rec(<<Ent("a", Ref(2))>>), Rec(<<Ent("c", Num(1))>>) >>

\* { a: 1 } and, apart from it, { b: { c: 1 } }
RecordAndNested ==
    << Rec(<<Ent("a", Num(1))>>), Rec(<<Ent("b", Ref(3))>>), Rec(<<Ent("c", Num(1))>>) >>

\* x = { c: 1 }; { a: x, b: x }
SharedChild ==
    << Rec(<<Ent("a", Ref(2)), Ent("b", Ref(2))>>), Rec(<<Ent("c", Num(1))>>) >>

\* { a: new Date(), b: new Foo(), c: [ 7 ] }
OpaqueAndForeign ==
    << Rec(<<Ent("a", Ref(2)), Ent("b", Ref(3)), Ent("c", Ref(4))>>),
       Obj("Date", <<>>), Obj("Foo", <<>>), Obj("Array", <<Ent("", Num(7))>>) >>

\* [ 7, [ 1 ] ] and, apart from it, { c: 1 }
ArrayOfArray ==
    << Obj("Array", <<Ent("", Num(7)), Ent("", Ref(2))>>), Obj("Array", <<Ent("", Num(1))>>),
       Rec(<<Ent("c", Num(1))>>) >>

\* new Set([ 7, [ 1 ] ]) and, apart from it, { c: 1 }
SetOfArray ==
    << Obj("Set", <<Ent("", Num(7)), Ent("", Ref(2))>>), Obj("Array", <<Ent("", Num(1))>>),
       Rec(<<Ent("c", Num(1))>>) >>

\* new Map([ [ "g1", 7 ], [ "g2", [ 1 ] ] ]) and, apart from it, { c: 1 }
MapOfArray ==
    << Obj("Map", <<Ent("g1", Num(7)), Ent("g2", Ref(2))>>), Obj("Array", <<Ent("", Num(1))>>),
       Rec(<<Ent("c", Num(1))>>) >>

\* { a: [ new Set([ new Map([ [ "g1", { c: 1 } ] ]) ]) ] }
MixedNesting ==
    << Rec(<<Ent("a", Ref(2))>>), Obj("Array", <<Ent("", Ref(3))>>),
       Obj("Set", <<Ent("", Ref(4))>>), Obj("Map", <<Ent("g1", Ref(5))>>),
       Rec(<<Ent("c", Num(1))>>) >>

InitWith(heaps) ==
    /\ heap \in heaps
    /\ observableMap = [i \in {} |-> ObservableInfo(0, "", Null)]
    /\ handles = <<>>
    /\ events = <<>>
    /\ lastOp = Op("init", 0, "", <<>>, "", 0, FALSE)
    /\ wraps = 0
    /\ mutations = 0

(***************************************************************************)
(* SpecWrap: any of the starting structures, then observable() on any      *)
(* object of the heap, on null and on a number, strict or not.             *)
(***************************************************************************)
InitWrap ==
    InitWith({NestedRecord, RecordAndNested, SharedChild, OpaqueAndForeign,
              ArrayOfArray, SetOfArray, MapOfArray, MixedNesting})

NextWrap == Wrap(AllRefs \cup {Null, Num(1)}, BOOLEAN)

SpecWrap == InitWrap /\ [][NextWrap]_vars

(***************************************************************************)
(* Spec: the nested records, wrapped by the program, observed and          *)
(* assigned to.                                                            *)
(***************************************************************************)
Values == {Num(2), Ref(2)}

Init == InitWith({NestedRecord, RecordAndNested})

Next ==
    \/ Wrap({Ref(1)} \cap Unwrapped, {TRUE})
    \/ SetProp({"a", "c"}, Values, MaxMutations)
    \/ DeleteProp({"a", "c"}, MaxMutations)
    \/ Observe({Ref(1)} \cup {Ref(f) : f \in Facades}, MaxHandles)

Spec == Init /\ [][Next]_vars

(***************************************************************************)
(* SpecObserver: a record in a record, wrapped by the program; observers   *)
(* are registered, paused, resumed and destroyed while the inner record is *)
(* assigned to.                                                            *)
(***************************************************************************)
InitObserver == InitWith({TwoLevelRecord})

NextObserver ==
    \/ Wrap({Ref(1)} \cap Unwrapped, {TRUE})
    \/ SetProp({"c"}, {Num(2)}, MaxObserverMutations)
    \/ Observe({Ref(1)} \cup {Ref(f) : f \in Facades}, MaxHandles)
    \/ Pause
    \/ Resume
    \/ Destroy

SpecObserver == InitObserver /\ [][NextObserver]_vars

(***************************************************************************)
(* SpecOrder: as SpecObserver, with more registrations and without pause   *)
(* and resume: the order in which the callbacks of one call are called.    *)
(***************************************************************************)
NextOrder ==
    \/ Wrap({Ref(1)} \cap Unwrapped, {TRUE})
    \/ SetProp({"c"}, {Num(2)}, MaxMutations)
    \/ Observe({Ref(f) : f \in Facades}, MaxObservers)
    \/ Destroy

SpecOrder == InitObserver /\ [][NextOrder]_vars

(***************************************************************************)
(* SpecCollections: an Array, a Set or a Map, wrapped by the program, then *)
(* one call of a modifying method, an index assignment or deletion.        *)
(***************************************************************************)
InitCollections == InitWith({ArrayOfArray, SetOfArray, MapOfArray})

NextCollections ==
    \/ Wrap({Ref(1)} \cap Unwrapped, {TRUE})
    \/ SetProp({}, {Num(2), Ref(3)}, MaxMutations)
    \/ DeleteProp({}, MaxMutations)
    \/ ArrayCall({Num(2), Ref(3)}, MaxMutations)
    \/ SetCall({Num(7), Ref(3)}, MaxMutations)
    \/ MapCall({"g1", "g3"}, {Num(2), Ref(3)}, MaxMutations)

SpecCollections == InitCollections /\ [][NextCollections]_vars

(***************************************************************************)
(* SpecBuffer: a record with a Uint8Array, wrapped by the program and      *)
(* observed; assignments, deletions and the modifying methods of the typed *)
(* array, and the deletion of the record's property.                       *)
(***************************************************************************)
\* { h: new Uint8Array([ 1, 2, 3 ]) } and, apart from it, [ 7, 7 ]
BufferInRecord ==
    << Rec(<<Ent("h", Ref(2))>>),
       Obj("TypedArray", <<Ent("", Num(1)), Ent("", Num(2)), Ent("", Num(3))>>),
       Obj("Array", <<Ent("", Num(7)), Ent("", Num(7))>>) >>

InitBuffer == InitWith({BufferInRecord})

NextBuffer ==
    \/ Wrap({Ref(1)} \cap Unwrapped, {TRUE})
    \/ Observe({Ref(f) : f \in Facades}, MaxHandles)
    \/ BufferAssign({Num(8)}, MaxMutations)
    \/ BufferDelete(MaxMutations)
    \/ DeleteProp({"h"}, MaxMutations)
    \/ BufferCall({Ref(3)}, MaxMutations)

SpecBuffer == InitBuffer /\ [][NextBuffer]_vars

(***************************************************************************)
(* What the properties below speak of.                                     *)
(***************************************************************************)
\* the values stored in an object (read through the proxy, if it is one)
StoredValues(h, i) == {h[TargetOf(h, i)].ents[j].v : j \in 1..Len(h[TargetOf(h, i)].ents)}

\* the objects stored in an object
Children(h, i) == {x.v : x \in {y \in StoredValues(h, i) : y.t = "ref"}}

\* the objects reachable from the objects of frontier
RECURSIVE Descendants(_, _, _)
Descendants(h, frontier, seen) ==
    IF frontier \subseteq seen THEN seen
    ELSE Descendants(h, UNION {Children(h, i) : i \in frontier}, seen \cup frontier)

\* the proxy k levels above the proxy f
RECURSIVE Ancestor(_, _, _)
Ancestor(om, f, k) == IF k = 0 THEN f ELSE Ancestor(om, om[f].parent.v, k - 1)

\* a proxy and the proxies above it
RECURSIVE ParentChain(_, _)
ParentChain(om, f) ==
    {f} \cup (IF om[f].parent = Null THEN {} ELSE ParentChain(om, om[f].parent.v))

\* n_k. ... .n_1.t for the proxy f
RECURSIVE NamePath(_, _, _, _)
NamePath(om, f, k, t) ==
    IF k = 0 THEN t
    ELSE om[Ancestor(om, f, k - 1)].name \o "." \o NamePath(om, f, k - 1, t)

Registered(om, f, c) == \E i \in 1..Len(om[f].callbacks) : om[f].callbacks[i] = c

Active(om, f, c) == Registered(om, f, c) /\ om[f].paused[c] # "true"

\* the observations of ev the callback c got for the target f
EventsTo(ev, f, c) == {i \in 1..Len(ev) : ev[i].target = f /\ ev[i].callback = c}

\* the value of the property the last call assigned, as the heap h has it
AssignedSlot(h) == ReflectGet(h[TargetOf(heap, lastOp.f)], lastOp.p)

(***************************************************************************)
(* Identity and wrapping.                                                  *)
(***************************************************************************)
\* C1: every raw value has at most one facade: no two entries of the registry
\* are proxies of the same raw value, however often and through however many
\* slots the raw value was wrapped.
C1_OneFacadePerRaw ==
    \A f, g \in Facades : observableMap[f].raw = observableMap[g].raw => f = g

\* C2: a single property assignment on a record proxy delivers, to each active
\* callback of that proxy and of each proxy above it, exactly one observation,
\* the one of the assigned property with the assigned value (after wrapping)
\* as valueNew, and no other observation to any callback.
C2_OneEventPerAssignment ==
    (lastOp.op = "set" /\ lastOp.err = "none" /\ KindOf(heap, lastOp.f) = "Record") =>
        /\ \A i \in 1..Len(events) :
               /\ events[i].type = "change"
               /\ events[i].origin = lastOp.f
               /\ events[i].token = lastOp.p
               /\ events[i].valueNew = AssignedSlot(heap)
        /\ \A f \in Facades, c \in Callbacks :
               Cardinality(EventsTo(events, f, c)) =
                   IF f \in ParentChain(observableMap, lastOp.f) /\ Active(observableMap, f, c)
                   THEN 1 ELSE 0

\* C3: every object stored in a wrapped structure is a registered facade, or
\* of an opaque kind, whatever assignments and inserting methods were called.
C3_StoredObjectsAreFacades ==
    \A f \in Facades : \A d \in Children(heap, f) :
        d \in Facades \/ KindOf(heap, d) \in OpaqueKinds

\* C4: right after observable(root) has returned for a structure of supported
\* kinds, the returned object and every object reachable from it is a
\* registered proxy, except the objects of opaque kinds, of which there is no
\* proxy.
C4_FullGraphCoverage ==
    (lastOp.op = "observable" /\ lastOp.err = "none") =>
        LET reached == Descendants(heap, {lastOp.ret.v}, {})
        IN  (\A d \in reached : KindOf(heap, d) \in SupportedKinds \cup OpaqueKinds) =>
                \A d \in reached :
                    IF KindOf(heap, d) \in OpaqueKinds
                    THEN heap[d].kind # "Proxy" /\ d \notin Facades
                    ELSE d \in Facades

\* C4, its case: a record with an array, a set and a map nested in it was wrapped.
C4_Witness ==
    /\ lastOp.op = "observable" /\ lastOp.err = "none"
    /\ LET reached == Descendants(heap, {lastOp.ret.v}, {})
       IN  /\ \A d \in reached : KindOf(heap, d) \in SupportedKinds \cup OpaqueKinds
           /\ {"Array", "Set", "Map"} \subseteq {KindOf(heap, d) : d \in reached}
           /\ Cardinality(reached) >= 5

(***************************************************************************)
(* Propagation.                                                            *)
(***************************************************************************)
\* C5: the observation of a mutation of the proxy F with path token t that is
\* delivered k levels above F has the k-th ancestor of F as target and the path
\* n_k. ... .n_1.t (t itself for k = 0), n_i being the name of the i-th proxy
\* of the parent chain; the observations of one mutation have the same type,
\* valueNew and valueOld; the last mutation of an assignment or deletion is
\* the one of the assigned or deleted property.
C5_PathComposition ==
    /\ \A i \in 1..Len(events) :
           /\ events[i].target = Ancestor(observableMap, events[i].origin, events[i].level)
           /\ events[i].path =
                  NamePath(observableMap, events[i].origin, events[i].level, events[i].token)
    /\ \A i, j \in 1..Len(events) :
           events[i].chain = events[j].chain =>
               /\ events[i].type = events[j].type
               /\ events[i].valueNew = events[j].valueNew
               /\ events[i].valueOld = events[j].valueOld
    /\ (lastOp.op \in {"set", "delete"} /\ lastOp.err = "none" /\ events # <<>>) =>
           /\ events[Len(events)].origin = lastOp.f
           /\ events[Len(events)].token = lastOp.p

\* C5, its case: an observation delivered two levels above the mutated proxy.
C5_Witness ==
    \E i \in 1..Len(events) :
        /\ events[i].level = 2
        /\ events[i].token = "c"
        /\ events[i].path = "a.b.c"
        /\ observableMap[events[i].target].parent = Null

\* The scenario of C6: { a: { b: { c: 1 } } } wrapped (proxies 4, 5 and 6 of
\* the objects 1, 2 and 3), one observer at the root proxy and one at the
\* middle proxy, and c was set to 2 by the first assignment made.
C6_Scenario ==
    /\ mutations = 1
    /\ Len(heap) = 6
    /\ heap[1].ents = <<Ent("a", Ref(5))>>
    /\ heap[2].ents = <<Ent("b", Ref(6))>>
    /\ heap[3].ents = <<Ent("c", Num(2))>>
    /\ Facades = {4, 5, 6}
    /\ observableMap[4].raw = 1 /\ observableMap[5].raw = 2 /\ observableMap[6].raw = 3
    /\ Len(handles) = 2
    /\ {handles[1].f, handles[2].f} = {4, 5}
    /\ lastOp.op = "set" /\ lastOp.f = 6 /\ lastOp.p = "c" /\ lastOp.args = <<Num(2)>>
    /\ lastOp.err = "none"

\* the two observations of the scenario of C6, with the given paths
C6_TwoEvents(pathMiddle, pathRoot) ==
    /\ Len(events) = 2
    /\ \E i, j \in 1..2 :
           /\ i # j
           /\ events[i].target = 5 /\ events[i].path = pathMiddle
           /\ events[j].target = 4 /\ events[j].path = pathRoot
           /\ \E h, k \in 1..2 :
                  /\ handles[h].f = 5 /\ handles[h].callback = events[i].callback
                  /\ handles[k].f = 4 /\ handles[k].callback = events[j].callback
    /\ \A i \in 1..2 :
           events[i].type = "change" /\ events[i].valueOld = Num(1) /\ events[i].valueNew = Num(2)

\* C6 as the specification states it: in the scenario exactly two observations
\* are delivered, "c" to the middle observer and "b.c" to the root observer,
\* both with valueOld 1 and valueNew 2.
C6_PathsAsStated == C6_Scenario => C6_TwoEvents("c", "b.c")

\* C6, amended: in the scenario exactly two observations are delivered, "b.c"
\* to the middle observer and "a.b.c" to the root observer, both with valueOld
\* 1 and valueNew 2.
C6_PathsFromMutatedFacade == C6_Scenario => C6_TwoEvents("b.c", "a.b.c")

\* C6, its case: the scenario has happened.
C6_Witness == C6_Scenario /\ Len(events) = 2

\* C7: for an assignment, every callback is called when the assigned property
\* already has its new value, and every active callback of the proxy and of
\* the proxies above it has been called when the assignment returns.
C7_MutationBeforeCallbacks ==
    (lastOp.op = "set" /\ lastOp.err = "none") =>
        /\ \A i \in 1..Len(events) : AssignedSlot(events[i].heapAt) = AssignedSlot(heap)
        /\ \A f \in ParentChain(observableMap, lastOp.f), c \in Callbacks :
               Active(observableMap, f, c) => EventsTo(events, f, c) # {}

\* the last handle observer() returned for the callback c on the proxy f
LatestRegistration(f, c) ==
    CHOOSE h \in 1..Len(handles) :
        /\ handles[h].f = f /\ handles[h].callback = c
        /\ \A k \in 1..Len(handles) :
               (handles[k].f = f /\ handles[k].callback = c) => k <= h

\* C8: of two observations of one mutation, the later one is delivered at the
\* same proxy or at a proxy above the one of the earlier; at the same proxy,
\* the callback of the later one was registered (the last time) after the
\* callback of the earlier one.
C8_InnermostFirstInRegistrationOrder ==
    \A i, j \in 1..Len(events) :
        (i < j /\ events[i].chain = events[j].chain) =>
            /\ events[j].target \in ParentChain(observableMap, events[i].target)
            /\ events[i].level <= events[j].level
            /\ events[i].target = events[j].target =>
                   LatestRegistration(events[i].target, events[i].callback)
                       < LatestRegistration(events[j].target, events[j].callback)

\* C8, its case: a callback registered first, destroyed and registered again
\* after another one is called after that one.
C8_Witness ==
    \E i, j \in 1..Len(events) :
        /\ i < j
        /\ events[i].target = events[j].target
        /\ \E h1, h2, h3 \in 1..Len(handles) :
               /\ h1 < h2 /\ h2 < h3
               /\ handles[h1].f = events[j].target /\ handles[h1].callback = events[j].callback
               /\ handles[h1].destroyed = 1
               /\ handles[h2].f = events[i].target /\ handles[h2].callback = events[i].callback
               /\ handles[h3].f = events[j].target /\ handles[h3].callback = events[j].callback

(***************************************************************************)
(* Observer handles.                                                       *)
(***************************************************************************)
\* C9: destroy() on a handle that was destroyed already raises an error,
\* whatever was registered in between: no handle's destroy() returns twice.
C9_DestroyReturnsOnce == \A h \in 1..Len(handles) : handles[h].destroyed <= 1

\* C10: pause() and resume() never raise, deliver nothing, leave the callbacks
\* registered and set the flag of the handle's callback whatever it was (so a
\* second pause() or resume() changes nothing); an assignment delivers exactly
\* one observation, of this assignment, to every registered callback of the
\* proxy and of the proxies above it that is not paused at that moment, and
\* none to a paused one.
C10_PauseResume ==
    [][/\ lastOp'.op \in {"pause", "resume"} =>
              LET flag == IF lastOp'.op = "pause" THEN "true" ELSE "false"
              IN  /\ lastOp'.err = "none"
                  /\ events' = <<>>
                  /\ observableMap' =
                         [observableMap EXCEPT ![lastOp'.f].paused[lastOp'.callback] = flag]
                  /\ observableMap[lastOp'.f].paused[lastOp'.callback] = flag
                         => observableMap' = observableMap
       /\ lastOp'.op = "set" =>
              /\ lastOp'.err = "none"
              /\ \A f \in Facades, c \in Callbacks :
                     Cardinality(EventsTo(events', f, c)) =
                         IF /\ f \in ParentChain(observableMap, lastOp'.f)
                            /\ Registered(observableMap, f, c)
                            /\ observableMap[f].paused[c] # "true"
                         THEN 1 ELSE 0
              /\ \A i \in 1..Len(events') :
                     /\ events'[i].origin = lastOp'.f
                     /\ events'[i].token = lastOp'.p
                     /\ events'[i].valueNew = lastOp'.args[1]
      ]_vars

\* C10, its case: an assignment while one callback of a proxy is paused and
\* another one of the same proxy is not: only the second one was called.
C10_Witness ==
    /\ lastOp.op = "set"
    /\ \E f \in ParentChain(observableMap, lastOp.f) :
           \E c1, c2 \in Callbacks :
               /\ Registered(observableMap, f, c1) /\ observableMap[f].paused[c1] = "true"
               /\ Registered(observableMap, f, c2)
               /\ EventsTo(events, f, c1) = {}
               /\ EventsTo(events, f, c2) # {}

\* C11: observer() with a callback that is registered on the proxy raises the
\* duplicate-registration error and changes nothing in the registry (the
\* callbacks and the paused flags stay, the callback is registered once);
\* with a callback that is not registered on this proxy, registered on
\* another one or not, it returns and registers the callback on this proxy.
C11_DuplicateRegistration ==
    [][(lastOp'.op = "observer" /\ lastOp'.args[1].t = "ref" /\ lastOp'.args[1].v \in Facades) =>
           LET f == lastOp'.args[1].v
               c == lastOp'.callback
           IN  IF Registered(observableMap, f, c)
               THEN /\ lastOp'.err = "callback already registered for observation"
                    /\ observableMap' = observableMap
                    /\ Cardinality({i \in 1..Len(observableMap'[f].callbacks) :
                                       observableMap'[f].callbacks[i] = c}) = 1
               ELSE /\ lastOp'.err = "none"
                    /\ observableMap'[f].callbacks = Append(observableMap[f].callbacks, c)
                    /\ \A g \in Facades \ {f} : observableMap'[g] = observableMap[g]
      ]_vars

\* C11, its case: a paused callback was registered again on its proxy, which
\* raised, and is still paused.
C11_Witness ==
    /\ lastOp.op = "observer"
    /\ lastOp.err = "callback already registered for observation"
    /\ observableMap[lastOp.args[1].v].paused[lastOp.callback] = "true"
    /\ Registered(observableMap, lastOp.args[1].v, lastOp.callback)

(***************************************************************************)
(* The registry of proxies.                                                *)
(***************************************************************************)
\* C12: isObservable is true exactly of the proxies makeObservable has made:
\* of every proxy, and of no other object, in particular not of the object a
\* proxy was made of, not of a Date, RegExp or Error and not of an object of
\* unsupported kind that the lenient mode passed through.
C12_IsObservableExact ==
    \A i \in 1..Len(heap) :
        LET st == isObservable(Machine(heap, observableMap), Ref(i))
        IN  /\ st.err = "none"
            /\ st.ret = Num(1) <=> heap[i].kind = "Proxy"
            /\ heap[i].kind = "Proxy" =>
                   /\ heap[heap[i].target].kind \in SupportedKinds
                   /\ isObservable(Machine(heap, observableMap), Ref(heap[i].target)).ret = Num(0)

\* C12, its case: a structure with a Date and an object of unsupported kind
\* was wrapped in lenient mode; the structure has proxies, these two have none.
C12_Witness ==
    /\ lastOp.op = "observable" /\ lastOp.err = "none" /\ ~lastOp.strict
    /\ lastOp.ret.v \in Facades
    /\ \E d, u \in Children(heap, lastOp.ret.v) :
           /\ heap[d].kind \in OpaqueKinds
           /\ heap[u].kind \notin SupportedKinds \cup OpaqueKinds \cup {"Proxy"}
           /\ isObservable(Machine(heap, observableMap), Ref(d)).ret = Num(0)
           /\ isObservable(Machine(heap, observableMap), Ref(u)).ret = Num(0)

(***************************************************************************)
(* SpecRewrap: a record in a record; observable() on it and then on its    *)
(* proxies, strict or not, between registrations and pauses.               *)
(***************************************************************************)
NextRewrap ==
    \/ Wrap(({Ref(1)} \cap Unwrapped) \cup {Ref(f) : f \in Facades}, BOOLEAN)
    \/ Observe({Ref(f) : f \in Facades}, MaxHandles)
    \/ Pause

SpecRewrap == InitObserver /\ [][NextRewrap]_vars

\* C13: observable() on a proxy returns this proxy and changes nothing: no
\* new proxy, no new entry of the registry, and raw, name, parent, callbacks
\* and paused flags of every entry as before, strict or not.
C13_WrapOfFacade ==
    [][(lastOp'.op = "observable" /\ lastOp'.args[1].v \in Facades) =>
           /\ lastOp'.err = "none"
           /\ lastOp'.ret = lastOp'.args[1]
           /\ observableMap' = observableMap
           /\ heap' = heap
      ]_vars

\* C13, its case: observable(), not strict, on a proxy that has a callback, a
\* paused one, returned.
C13_Witness ==
    /\ lastOp.op = "observable" /\ ~lastOp.strict
    /\ lastOp.args[1].v \in Facades
    /\ lastOp.ret = lastOp.args[1]
    /\ \E c \in Callbacks :
           /\ Registered(observableMap, lastOp.ret.v, c)
           /\ observableMap[lastOp.ret.v].paused[c] = "true"

\* C14: raw() of the proxy observable(x) returned is x itself, for x of a
\* supported kind, right after the call and in every later state, whatever
\* was assigned or deleted through the proxies: raw() of every proxy is the
\* object the proxy was made of, which is no proxy.
C14_RawOfObservable ==
    /\ \A f \in Facades :
           LET st == raw(Machine(heap, observableMap), Ref(f))
           IN  /\ st.err = "none"
               /\ st.ret = Ref(heap[f].target)
               /\ heap[st.ret.v].kind \in SupportedKinds
    /\ (/\ lastOp.op = "observable" /\ lastOp.err = "none"
        /\ lastOp.args[1].t = "ref" /\ lastOp.args[1].v \notin Facades
        /\ heap[lastOp.args[1].v].kind \in SupportedKinds) =>
           raw(Machine(heap, observableMap), lastOp.ret).ret = lastOp.args[1]

\* C14, its case: after observable(x) and an assignment of a nested record
\* through the proxy, raw() of the proxy is x.
C14_Witness ==
    /\ lastOp.op = "set" /\ lastOp.err = "none"
    /\ lastOp.args[1].t = "ref"
    /\ 4 \in Facades /\ observableMap[4].parent = Null
    /\ raw(Machine(heap, observableMap), Ref(4)).ret = Ref(1)
    /\ Cardinality(Facades) > 3

\* the objects of unsupported kind makeObservable reaches from the raw object i
UnsupportedFrom(h, om, i) ==
    {d \in RawReach(h, om, {i}, {}) : h[d].kind \notin SupportedKinds \cup OpaqueKinds \cup {"Proxy"}}

\* C15: observable() on a raw object from which an object of unsupported kind
\* is reached (the object itself or a descendant) raises if strict; if not
\* strict it returns, the unsupported object is the same object as before,
\* has no proxy and no entry of the registry, is what the call returns if it
\* was the argument, and is still stored in every slot it was stored in.
C15_StrictAndLenient ==
    [][(/\ lastOp'.op = "observable"
        /\ lastOp'.args[1].t = "ref"
        /\ lastOp'.args[1].v \notin Facades
        /\ UnsupportedFrom(heap, observableMap, lastOp'.args[1].v) # {}) =>
           LET x == lastOp'.args[1].v
               reached == RawReach(heap, observableMap, {x}, {})
           IN  IF lastOp'.strict
               THEN lastOp'.err = "unsupported object type detected"
               ELSE /\ lastOp'.err = "none"
                    /\ \A d \in UnsupportedFrom(heap, observableMap, x) :
                           /\ heap'[d] = heap[d]
                           /\ d \notin DOMAIN observableMap'
                           /\ \A i \in 1..Len(heap') : heap'[i].target # d
                           /\ d = x => lastOp'.ret = Ref(x)
                           /\ \A i \in reached : \A j \in 1..Len(heap[i].ents) :
                                  heap[i].ents[j].v = Ref(d) =>
                                      /\ j <= Len(heap'[i].ents)
                                      /\ heap'[i].ents[j].v = Ref(d)
      ]_vars

\* C15, its case: a record with an object of unsupported kind in it was
\* wrapped, not strict: the record has a proxy, the object is still in it.
C15_Witness ==
    /\ lastOp.op = "observable" /\ ~lastOp.strict /\ lastOp.err = "none"
    /\ lastOp.ret.v \in Facades
    /\ lastOp.args[1].v \notin Facades
    /\ \E d \in Children(heap, lastOp.ret.v) :
           heap[d].kind \notin SupportedKinds \cup OpaqueKinds \cup {"Proxy"}

(***************************************************************************)
(* SpecMethods: an Array, a Set or a Map, wrapped by the program and       *)
(* observed at the root, then calls of the modifying methods.              *)
(***************************************************************************)
NextMethods ==
    \/ Wrap({Ref(1)} \cap Unwrapped, {TRUE})
    \/ Observe({Ref(f) : f \in {g \in Facades : observableMap[g].parent = Null}}, MaxHandles)
    \/ ArrayCall({Num(2), Ref(3)}, MaxMutations)
    \/ SetCall({Num(7), Ref(3)}, MaxMutations)
    \/ MapCall({"g1", "g3"}, {Num(2), Ref(3)}, MaxMutations)

SpecMethods == InitCollections /\ [][NextMethods]_vars

\* the observations ev are those of one mutation of the proxy f: one for each
\* active callback of f and of the proxies above it, none else, each of the
\* given type, path token (the path at f), valueNew and valueOld
DeliveredOnce(ev, om, f, type, token, valueNew, valueOld) ==
    /\ \A g \in DOMAIN om, c \in Callbacks :
           Cardinality(EventsTo(ev, g, c)) =
               IF g \in ParentChain(om, f) /\ Active(om, g, c) THEN 1 ELSE 0
    /\ \A i \in 1..Len(ev) :
           /\ ev[i].type = type
           /\ ev[i].origin = f
           /\ ev[i].token = token
           /\ ev[i].level = 0 => ev[i].path = token
           /\ ev[i].valueNew = valueNew
           /\ ev[i].valueOld = valueOld

(***************************************************************************)
(* What the methods of the collections report.                             *)
(***************************************************************************)
\* C17: delete(key) on a Map proxy, for a key that is present, delivers one
\* observation with the key as path, the value stored at the key before the
\* call as valueOld and undefined as valueNew.
C17_MapDeleteReportsPriorValue ==
    [][(/\ lastOp'.op = "delete"
        /\ KindOf(heap, lastOp'.f) = "Map"
        /\ KeyIndex(heap[TargetOf(heap, lastOp'.f)].ents, lastOp'.p) > 0) =>
           DeliveredOnce(events', observableMap, lastOp'.f, "change", lastOp'.p, Undefined,
                         MapGetOrig(heap[TargetOf(heap, lastOp'.f)], lastOp'.p))
      ]_vars

\* C18: push(value) on an Array proxy reports the index of the appended
\* element, the new length - 1, with valueOld undefined and the appended value
\* as valueNew; pop() on an Array proxy that is not empty reports the index of
\* the removed element, the old length - 1, with the removed value as valueOld
\* and undefined as valueNew.
C18_PushPopReportIndex ==
    [][/\ (lastOp'.op = "push" /\ Len(lastOp'.args) = 1) =>
              DeliveredOnce(events', observableMap, lastOp'.f, "change",
                            IndexStr(Len(heap'[TargetOf(heap, lastOp'.f)].ents) - 1),
                            lastOp'.args[1], Undefined)
       /\ (lastOp'.op = "pop" /\ Len(heap[TargetOf(heap, lastOp'.f)].ents) > 0) =>
              LET ents == heap[TargetOf(heap, lastOp'.f)].ents
              IN  DeliveredOnce(events', observableMap, lastOp'.f, "change",
                                IndexStr(Len(ents) - 1),
                                Undefined, ReadVal(ents[Len(ents)].v))
      ]_vars

\* x is an array (a new one or not) of the elements elems
IsArrayOf(h, x, elems) ==
    /\ x.t = "ref"
    /\ h[TargetOf(h, x.v)].kind = "Array"
    /\ [i \in 1..Len(h[TargetOf(h, x.v)].ents) |-> ReadVal(h[TargetOf(h, x.v)].ents[i].v)] = elems

\* C19: splice(offset, deleteCount, items...) on an Array proxy delivers one
\* observation with the offset as path, the array of the removed elements as
\* valueOld and the array of the inserted items as valueNew.
C19_SpliceReportsSlices ==
    [][(lastOp'.op = "splice" /\ Len(lastOp'.args) >= 2) =>
           LET ents == heap[TargetOf(heap, lastOp'.f)].ents
               start == SpliceStart(Len(ents), lastOp'.args[1].v)
               dc == SpliceCount(Len(ents), start, lastOp'.args)
               removed == [i \in 1..dc |-> ReadVal(ents[start + i].v)]
               items == SubSeq(lastOp'.args, 3, Len(lastOp'.args))
           IN  /\ \A g \in Facades, c \in Callbacks :
                      Cardinality(EventsTo(events', g, c)) =
                          IF /\ g \in ParentChain(observableMap, lastOp'.f)
                             /\ Active(observableMap, g, c)
                          THEN 1 ELSE 0
               /\ \A i \in 1..Len(events') :
                      /\ events'[i].type = "change"
                      /\ events'[i].token = IndexStr(lastOp'.args[1].v)
                      /\ IsArrayOf(heap', events'[i].valueOld, removed)
                      /\ IsArrayOf(heap', events'[i].valueNew, items)
      ]_vars

(***************************************************************************)
(* What typed arrays report.                                               *)
(***************************************************************************)
\* the key p is an own key (a valid index) of the raw object o
HasKey(o, p) ==
    IF o.kind \in {"Array", "TypedArray"}
    THEN IndexOf(p) >= 0 /\ IndexOf(p) < Len(o.ents) /\ o.ents[IndexOf(p) + 1].v.t # "hole"
    ELSE KeyIndex(o.ents, p) > 0

\* C16: delete proxy[p] of an existing key or index p on the proxy of a plain
\* object, an Array or a typed array returns without an error, delivers one
\* "delete" observation to every active callback of every level of the parent
\* chain, with the value the key had as valueOld and undefined as valueNew,
\* and the key is no own key afterwards and reads as undefined.
C16_DeleteRemovesKey ==
    [][(/\ lastOp'.op = "delete"
        /\ KindOf(heap, lastOp'.f) \in {"Record", "Array", "TypedArray"}
        /\ HasKey(heap[TargetOf(heap, lastOp'.f)], lastOp'.p)) =>
           LET t == TargetOf(heap, lastOp'.f)
           IN  /\ lastOp'.err = "none"
               /\ DeliveredOnce(events', observableMap, lastOp'.f, "delete", lastOp'.p,
                                Undefined, ReflectGet(heap[t], lastOp'.p))
               /\ ~HasKey(heap'[t], lastOp'.p)
               /\ ReflectGet(heap'[t], lastOp'.p) = Undefined
      ]_vars

\* the values of the elements of the array or typed array the value x refers to
ElementsOf(h, x) ==
    [i \in 1..Len(h[TargetOf(h, x.v)].ents) |-> ReadVal(h[TargetOf(h, x.v)].ents[i].v)]

\* C20: set(source, offset) on the proxy of a typed array, with an offset the
\* source fits at, delivers one "change" observation to every active callback
\* of every level of the parent chain, with the offset as path, the elements
\* the typed array had at offset .. offset + source.length - 1 as valueOld and
\* the copied values as valueNew.
C20_SetReportsDestinationRange ==
    [][(/\ lastOp'.op = "set"
        /\ lastOp'.p = ""
        /\ KindOf(heap, lastOp'.f) = "TypedArray"
        /\ Len(lastOp'.args) = 2
        /\ lastOp'.err = "none") =>
           LET t == TargetOf(heap, lastOp'.f)
               offset == lastOp'.args[2].v
               n == Len(ElementsOf(heap, lastOp'.args[1]))
           IN  /\ \A g \in Facades, c \in Callbacks :
                      Cardinality(EventsTo(events', g, c)) =
                          IF /\ g \in ParentChain(observableMap, lastOp'.f)
                             /\ Active(observableMap, g, c)
                          THEN 1 ELSE 0
               /\ \A i \in 1..Len(events') :
                      /\ events'[i].type = "change"
                      /\ events'[i].token = IndexStr(offset)
                      /\ events'[i].valueOld.t = "ref"
                      /\ ElementsOf(heap', events'[i].valueOld) =
                             [j \in 1..n |-> heap[t].ents[offset + j].v]
                      /\ events'[i].valueNew.t = "ref"
                      /\ ElementsOf(heap', events'[i].valueNew) =
                             [j \in 1..n |-> heap'[t].ents[offset + j].v]
      ]_vars

C22_SetAddAlwaysNotifies ==
    [][(lastOp'.op = "add" /\ KindOf(heap, lastOp'.f) = "Set") =>
           /\ lastOp'.err = "none"
           /\ DeliveredOnce(events', observableMap, lastOp'.f, "change", "*",
                            lastOp'.args[1], Undefined)
      ]_vars

\* add(7) as the first operation on the observed new Set([ 7, [ 1 ] ]): the
\* Set has its two members and the callback got the observation
C22_Witness ==
    /\ lastOp.op = "add"
    /\ lastOp.args = <<Num(7)>>
    /\ lastOp.err = "none"
    /\ mutations = 1
    /\ Len(heap[TargetOf(heap, lastOp.f)].ents) = 2
    /\ MemberIndex(heap[TargetOf(heap, lastOp.f)].ents, Num(7)) > 0
    /\ Len(events) > 0
    /\ events[1].valueNew = Num(7)

(***************************************************************************)
(* SpecAlias: a record with two records in it, wrapped by the program and  *)
(* the inner records observed; numbers and the proxies themselves are      *)
(* assigned to the property c of any of the three, c is deleted, and       *)
(* observable() is called on the root proxy again.                         *)
(***************************************************************************)
\* { a: { c: 1 }, b: {} }
TwoChildren ==
    << Rec(<<Ent("a", Ref(2)), Ent("b", Ref(3))>>), Rec(<<Ent("c", Num(1))>>), Rec(<<>>) >>

InitAlias == InitWith({TwoChildren})

NextAlias ==
    \/ Wrap(({Ref(1)} \cap Unwrapped)
                \cup {Ref(f) : f \in {g \in Facades : observableMap[g].parent = Null}}, {TRUE})
    \/ Observe({Ref(f) : f \in {g \in Facades : observableMap[g].parent # Null}}, MaxHandles)
    \/ SetProp({"c"}, {Num(2)} \cup {Ref(f) : f \in Facades}, MaxObserverMutations)
    \/ DeleteProp({"c"}, MaxObserverMutations)

SpecAlias == InitAlias /\ [][NextAlias]_vars

\* C23: no call changes the name or the parent of a registered proxy, and no
\* entry of the registry is removed; an assignment of a proxy stores this
\* proxy and makes no new one; every observation of a call is delivered to a
\* proxy of the parent chain of the mutated proxy, as the registry has it
\* (of the proxies there were before the call, the one the call was made on),
\* with the path made of the names of this chain: a proxy that is stored in a
\* second record reports through its first parent only, and the callbacks of
\* the second record get nothing of what happens inside it.
C23_ParentAndNameFixed ==
    [][/\ \A f \in Facades :
              /\ f \in DOMAIN observableMap'
              /\ observableMap'[f].parent = observableMap[f].parent
              /\ observableMap'[f].name = observableMap[f].name
              /\ observableMap'[f].raw = observableMap[f].raw
       /\ (lastOp'.op = "set" /\ lastOp'.args[1].t = "ref" /\ lastOp'.args[1].v \in Facades) =>
              /\ lastOp'.err = "none"
              /\ ReflectGet(heap'[TargetOf(heap, lastOp'.f)], lastOp'.p) = lastOp'.args[1]
              /\ DOMAIN observableMap' = DOMAIN observableMap
              /\ Len(heap') = Len(heap)
       /\ \A i \in 1..Len(events') :
              /\ events'[i].origin \in Facades => events'[i].origin = lastOp'.f
              /\ events'[i].target \in ParentChain(observableMap', events'[i].origin)
              /\ events'[i].target =
                     Ancestor(observableMap', events'[i].origin, events'[i].level)
              /\ events'[i].path =
                     NamePath(observableMap', events'[i].origin, events'[i].level,
                              events'[i].token)
      ]_vars

\* the proxy of { c: 1 }, made as property a of the root, is stored in the
\* second record b as well; both are observed; c of the first was then set to
\* 2: its callback got the observation, the callback of b got none, and name
\* and parent are those of the first slot
C23_Witness ==
    \E x, y \in Facades :
        /\ observableMap[x].name = "a"
        /\ observableMap[y].name = "b"
        /\ observableMap[x].parent = observableMap[y].parent
        /\ observableMap[x].parent # Null
        /\ Ref(x) \in StoredValues(heap, y)
        /\ Ref(x) \in StoredValues(heap, observableMap[x].parent.v)
        /\ \E c \in Callbacks : Active(observableMap, x, c)
        /\ \E c \in Callbacks : Active(observableMap, y, c)
        /\ lastOp.op = "set" /\ lastOp.f = x /\ lastOp.p = "c" /\ lastOp.args = <<Num(2)>>
        /\ lastOp.err = "none"
        /\ Len(events) = 1
        /\ events[1].target = x
        /\ events[1].path = "c"

(***************************************************************************)
(* Names and slots.                                                        *)
(***************************************************************************)
\* C24: in every state, a proxy that has a parent which is the proxy of a plain
\* object, an Array or a Map, and that is stored in this parent, is stored
\* there under the key or index that is its name, also after elements were
\* moved, removed or replaced.
C24_NameIsSlot ==
    \A f \in Facades :
        (/\ observableMap[f].parent # Null
         /\ KindOf(heap, observableMap[f].parent.v) \in {"Record", "Array", "Map"}
         /\ f \in Children(heap, observableMap[f].parent.v)) =>
            ReflectGet(heap[TargetOf(heap, observableMap[f].parent.v)], observableMap[f].name)
                = Ref(f)

(***************************************************************************)
(* SpecNested: a record in a record, wrapped by the program; cb1 and cbSet *)
(* are registered on the two proxies and c is assigned to.                 *)
(***************************************************************************)
NextNested ==
    \/ Wrap({Ref(1)} \cap Unwrapped, {TRUE})
    \/ ObserveWith({Ref(f) : f \in Facades}, {"cb1", "cbSet"}, MaxObservers)
    \/ SetProp({"c"}, {Num(2)}, MaxMutations)

SpecNested == InitObserver /\ [][NextNested]_vars

\* the callbacks of the proxy f that are not paused, then those of the proxies
\* above it, each with the proxy it is called for
RECURSIVE ChainDeliveries(_, _)
ChainDeliveries(om, f) ==
    LET act == SelectSeq(om[f].callbacks, LAMBDA c : om[f].paused[c] # "true")
    IN  [i \in 1..Len(act) |-> [target |-> f, callback |-> act[i]]]
            \o (IF om[f].parent = Null THEN <<>> ELSE ChainDeliveries(om, om[f].parent.v))

\* the calls of callbacks a depth-first propagation of the assignment of p of
\* the proxy f makes, from the i-th of the deliveries del on: after each call of cbSet
\* all the calls for its assignment of d to the target it was called for
RECURSIVE DepthFirst(_, _, _, _, _)
DepthFirst(om, del, i, p, f) ==
    IF i > Len(del) THEN <<>>
    ELSE <<[target |-> del[i].target, callback |-> del[i].callback, token |-> p,
            origin |-> f]>>
         \o (IF del[i].callback = "cbSet"
             THEN [j \in 1..Len(ChainDeliveries(om, del[i].target)) |->
                      [target |-> ChainDeliveries(om, del[i].target)[j].target,
                       callback |-> ChainDeliveries(om, del[i].target)[j].callback,
                       token |-> "d", origin |-> del[i].target]]
             ELSE <<>>)
         \o DepthFirst(om, del, i + 1, p, f)

\* C25: an assignment of c, with callbacks of which some assign d of the proxy
\* they are called for, calls the callbacks in depth-first order: after a call
\* of such a callback come all the calls of the propagation of its assignment,
\* for every active callback of every level above the proxy it assigned to,
\* and only then the next callback or level of the outer propagation; every
\* callback called after the assignment of d sees d assigned; when the call
\* returns nothing is left to deliver.
C25_NestedDepthFirst ==
    [][(lastOp'.op = "set" /\ lastOp'.p = "c") =>
           /\ lastOp'.err = "none"
           /\ [i \in 1..Len(events') |->
                  [target |-> events'[i].target, callback |-> events'[i].callback,
                   token |-> events'[i].token, origin |-> events'[i].origin]]
                  = DepthFirst(observableMap, ChainDeliveries(observableMap, lastOp'.f), 1, "c",
                               lastOp'.f)
           /\ \A i, k \in 1..Len(events') :
                  (i < k /\ events'[i].callback = "cbSet" /\ events'[i].token = "c") =>
                      /\ ReflectGet(events'[k].heapAt[TargetOf(heap, events'[i].target)], "d")
                             = Num(9)
                      /\ events'[k].token = "d" => events'[k].valueNew = Num(9)
           /\ \A i \in 1..Len(events') :
                  /\ events'[i].target =
                         Ancestor(observableMap, events'[i].origin, events'[i].level)
                  /\ events'[i].path =
                         NamePath(observableMap, events'[i].origin, events'[i].level,
                                  events'[i].token)
                  /\ events'[i].callback = "cbSet" =>
                         ReflectGet(heap'[TargetOf(heap, events'[i].target)], "d") = Num(9)
      ]_vars

\* cbSet and cb1 on the inner proxy, cb1 on the root: the assignment of c of
\* the inner proxy calls cbSet (c), then cbSet, cb1 and the root's cb1 for d,
\* then cb1 and the root's cb1 for c
C25_Witness ==
    /\ lastOp.op = "set" /\ lastOp.p = "c" /\ lastOp.err = "none"
    /\ Len(events) = 6
    /\ [i \in 1..6 |-> events[i].callback] = <<"cbSet", "cbSet", "cb1", "cb1", "cb1", "cb1">>
    /\ [i \in 1..6 |-> events[i].path] = <<"c", "d", "d", "a.d", "c", "a.c">>

(***************************************************************************)
(* SpecRaise: as Spec, with cb1 and cbThrow registered.                    *)
(***************************************************************************)
NextRaise ==
    \/ Wrap({Ref(1)} \cap Unwrapped, {TRUE})
    \/ SetProp({"a", "c"}, Values, MaxMutations)
    \/ DeleteProp({"a", "c"}, MaxMutations)
    \/ ObserveWith({Ref(f) : f \in Facades}, {"cb1", "cbThrow"}, MaxHandles)

SpecRaise == Init /\ [][NextRaise]_vars

\* C26: when a callback throws during an assignment or a deletion, the call
\* ends with this error, the throwing call is the last call of a callback, the
\* property is assigned (the value itself, or a proxy of it) or deleted as if
\* nothing was thrown, and every entry of the registry is as before the call.
C26_CallbackRaises ==
    [][(lastOp'.op \in {"set", "delete"} /\ \E i \in 1..Len(events') :
                                                events'[i].callback = "cbThrow") =>
           LET t == TargetOf(heap, lastOp'.f)
               stored == ReflectGet(heap'[t], lastOp'.p)
           IN  /\ lastOp'.err = "Error: callback failed"
               /\ \A i \in 1..Len(events') :
                      events'[i].callback = "cbThrow" <=> i = Len(events')
               /\ lastOp'.op = "delete" => ~HasKey(heap'[t], lastOp'.p)
               /\ lastOp'.op = "set" =>
                      \/ stored = lastOp'.args[1]
                      \/ /\ stored.t = "ref"
                         /\ stored.v \in DOMAIN observableMap'
                         /\ Ref(observableMap'[stored.v].raw) = lastOp'.args[1]
               /\ \A f \in Facades :
                      f \in DOMAIN observableMap' /\ observableMap'[f] = observableMap[f]
      ]_vars

(***************************************************************************)
(* The parent relation.                                                    *)
(***************************************************************************)
\* the proxies at most n parent links above the proxy f
RECURSIVE Above(_, _, _)
Above(om, f, n) ==
    IF n = 0 \/ om[f].parent = Null \/ om[f].parent.v \notin DOMAIN om THEN {}
    ELSE {om[f].parent.v} \cup Above(om, om[f].parent.v, n - 1)

SelfRecord == << Rec(<<Ent("self", Ref(1))>>) >>

\* x = { a: 1 }; y = { x: x }; x.y = y
TwoRecordCycle ==
    << Rec(<<Ent("a", Num(1)), Ent("y", Ref(2))>>), Rec(<<Ent("x", Ref(1))>>) >>

\* x = [ 7, [ 1 ] ]; x[1].push(x)
ArrayCycle ==
    << Obj("Array", <<Ent("", Num(7)), Ent("", Ref(2))>>),
       Obj("Array", <<Ent("", Num(1)), Ent("", Ref(1))>>) >>

InitCycle == InitWith({SelfRecord, TwoRecordCycle, ArrayCycle, TwoLevelRecord})

NextCycle ==
    \/ WrapAny(RawRefs \cup {lastOp.ret}, BOOLEAN)
    \/ Observe({lastOp.ret} \cap {Ref(f) : f \in Facades}, MaxHandles)

SpecCycle == InitCycle /\ [][NextCycle]_vars

\* C28: observable() on a raw object from which only objects of supported
\* kinds are reached returns, also when one of them reaches itself, and then
\* the registry has exactly one proxy of every raw object that was reached.
C28_WrapOfCycleReturns ==
    [][(/\ lastOp'.op = "observable"
        /\ lastOp'.args[1].t = "ref"
        /\ heap[lastOp'.args[1].v].kind # "Proxy"
        /\ \A i \in RawReach(heap, observableMap, {lastOp'.args[1].v}, {}) :
               heap[i].kind \in SupportedKinds \cup {"Proxy"}) =>
           /\ lastOp'.err = "none"
           /\ lastOp'.ret.t = "ref"
           /\ lastOp'.ret.v \in DOMAIN observableMap'
           /\ \A i \in RawReach(heap, observableMap, {lastOp'.args[1].v}, {}) :
                  heap[i].kind # "Proxy" =>
                      Cardinality({f \in DOMAIN observableMap' \ DOMAIN observableMap :
                                      observableMap'[f].raw = i}) = 1
      ]_vars

(***************************************************************************)
(* SpecNull: records and arrays with and without a null in them;           *)
(* observable() on the root, observers, and assignments of null and of a   *)
(* number to a property or an index.                                       *)
(***************************************************************************)
\* { a: { c: 1 }, c: null }
RecordWithNull ==
    << Rec(<<Ent("a", Ref(2)), Ent("c", Null)>>), Rec(<<Ent("c", Num(1))>>) >>

\* [ 7, [ null ] ]
ArrayWithNull ==
    << Obj("Array", <<Ent("", Num(7)), Ent("", Ref(2))>>), Obj("Array", <<Ent("", Null)>>) >>

\* [ 7, [ 1 ] ]
ArrayInArray ==
    << Obj("Array", <<Ent("", Num(7)), Ent("", Ref(2))>>), Obj("Array", <<Ent("", Num(1))>>) >>

InitNull == InitWith({TwoLevelRecord, ArrayInArray, RecordWithNull, ArrayWithNull})

NextNull ==
    \/ Wrap({Ref(1)} \cap Unwrapped, BOOLEAN)
    \/ Observe({Ref(f) : f \in Facades}, MaxHandles)
    \/ SetProp({"c"}, {Null, Num(2)}, MaxMutations)

SpecNull == InitNull /\ [][NextNull]_vars

\* the raw objects reached from the raw object i that hold null
HoldersOfNull(h, om, i) ==
    {d \in RawReach(h, om, {i}, {}) : Null \in StoredValues(h, d)}

\* C29: the assignment of null to a property of a plain object proxy or to an
\* index of an Array proxy throws, and heap and registry are as before and no
\* callback was called; observable() on a raw structure of plain objects and
\* Arrays of which one holds null throws.
C29_NullRaises ==
    [][/\ (/\ lastOp'.op = "set"
           /\ lastOp'.args = <<Null>>
           /\ KindOf(heap, lastOp'.f) \in {"Record", "Array"}) =>
              /\ lastOp'.err # "none"
              /\ heap' = heap
              /\ observableMap' = observableMap
              /\ events' = <<>>
       /\ (/\ lastOp'.op = "observable"
           /\ lastOp'.args[1].t = "ref"
           /\ lastOp'.args[1].v \notin Facades
           /\ \A d \in RawReach(heap, observableMap, {lastOp'.args[1].v}, {}) :
                  heap[d].kind \in {"Record", "Array"}
           /\ HoldersOfNull(heap, observableMap, lastOp'.args[1].v) # {}) =>
              /\ lastOp'.err # "none"
              /\ events' = <<>>
      ]_vars

\* null was assigned to the property c of the observed inner proxy of
\* { a: { c: 1 } }: the call threw, c is 1 and no callback was called
C29_Witness ==
    /\ lastOp.op = "set" /\ lastOp.args = <<Null>> /\ lastOp.p = "c"
    /\ lastOp.err # "none"
    /\ observableMap[lastOp.f].parent # Null
    /\ \E c \in Callbacks : Active(observableMap, lastOp.f, c)
    /\ ReflectGet(heap[TargetOf(heap, lastOp.f)], "c") = Num(1)
    /\ events = <<>>

====
